---- MODULE Spec2Model ----
(***************************************************************************)
(* Equation core of the Claude-LaTeX MCP server: the fast-path pattern     *)
(* matcher, the result formatters and the generateEquation entry points    *)
(* (src/extensions/equation/equation-generator.ts, the older copy kept in  *)
(* src/extensions/equation/math-symbols-library.ts, and the server's       *)
(* handleEquationGeneration).                                              *)
(*                                                                         *)
(* JavaScript strings are TLA+ strings; a character is a string of length  *)
(* one, s.includes(t) is substring search, toLowerCase maps characters.    *)
(***************************************************************************)
EXTENDS Integers, Sequences, FiniteSets, TLC

VARIABLES
  mPc, mImpl, mDesc, mOut,                                  \* matcher applied to one description
  fPc, fImpl, fBody, fFmt, fNum, fOut,                      \* formatter applied to one body
  pc, impl, description, format, numbered, cached, reply,   \* one generateEquation call
  events, outcome,
  vPc, vImpl, vIn, vOut,                                    \* validateEquation applied to one input
  registry,                                                 \* contents of the Set VALID_MATH_COMMANDS
  sPc, sBad, sOut,                                          \* getSuggestions applied to one name
  dPc, dA, dB, dOut,                                        \* dist applied to two strings
  trace,                                                    \* the calls made on the module so far
  now, requestCounts, arrivals,                             \* the rate limiter of the server
  xImpl, storage, messages, xPc, posts, served, sent,       \* the background script of the extension
  config, isInitialized, app, tools, toolHandlers,          \* one LaTeXMCPServer and its MCP server
  requestHandlers, mcpTools, listening, calls, executed, lastRegister

matchVars == <<mPc, mImpl, mDesc, mOut>>
formatVars == <<fPc, fImpl, fBody, fFmt, fNum, fOut>>
genVars == <<pc, impl, description, format, numbered, cached, reply, events, outcome>>
validateVars == <<vPc, vImpl, vIn, vOut>>
suggestVars == <<sPc, sBad, sOut>>
distVars == <<dPc, dA, dB, dOut>>
limiterVars == <<now, requestCounts, arrivals>>
extensionVars == <<xImpl, storage, messages, xPc, posts, served, sent>>
serverVars == <<config, isInitialized, app, tools, toolHandlers, requestHandlers, mcpTools,
                listening, calls, executed, lastRegister>>

\* the variables of the server and of the browser extension
hostVars == <<limiterVars, extensionVars, serverVars>>
vars == <<mPc, mImpl, mDesc, mOut, fPc, fImpl, fBody, fFmt, fNum, fOut,
          pc, impl, description, format, numbered, cached, reply, events, outcome,
          vPc, vImpl, vIn, vOut, registry, sPc, sBad, sOut, dPc, dA, dB, dOut, trace,
          now, requestCounts, arrivals,
          xImpl, storage, messages, xPc, posts, served, sent,
          config, isInitialized, app, tools, toolHandlers, requestHandlers, mcpTools,
          listening, calls, executed, lastRegister>>

\* what an operation on one group of variables leaves alone
exceptMatchVars == <<formatVars, genVars, validateVars, suggestVars, distVars, registry, trace, hostVars>>
exceptFormatVars == <<matchVars, genVars, validateVars, suggestVars, distVars, registry, trace, hostVars>>
exceptGenVars == <<matchVars, formatVars, validateVars, suggestVars, distVars, registry, trace, hostVars>>
exceptValidateVars == <<matchVars, formatVars, genVars, suggestVars, distVars, registry, trace, hostVars>>
exceptSuggestVars == <<matchVars, formatVars, genVars, validateVars, distVars, trace, hostVars>>
exceptDistVars == <<matchVars, formatVars, genVars, validateVars, suggestVars, registry, trace, hostVars>>

\* the variables of the equation module
moduleVars == <<matchVars, formatVars, genVars, validateVars, suggestVars, distVars, registry, trace>>
exceptLimiterVars == <<moduleVars, extensionVars, serverVars>>
exceptExtensionVars == <<moduleVars, limiterVars, serverVars>>
exceptServerVars == <<moduleVars, limiterVars, extensionVars>>

\* JavaScript null (matcher miss) and undefined (a parameter the caller left out)
Null == [isNull |-> TRUE]
Absent == "<undefined>"

(***************************************************************************)
(* Strings                                                                 *)
(***************************************************************************)
UpperLetters == "ABCDEFGHIJKLMNOPQRSTUVWXYZ"
LowerLetters == "abcdefghijklmnopqrstuvwxyz"

CharAt(s, i) == SubSeq(s, i, i)

\* index of character c in the alphabet abc, 0 when it is not there
IndexIn(abc, c) ==
  IF \E i \in 1..Len(abc) : CharAt(abc, i) = c
  THEN CHOOSE i \in 1..Len(abc) : CharAt(abc, i) = c
  ELSE 0

ToLowerChar(c) ==
  IF IndexIn(UpperLetters, c) = 0 THEN c ELSE CharAt(LowerLetters, IndexIn(UpperLetters, c))

ToUpperChar(c) ==
  IF IndexIn(LowerLetters, c) = 0 THEN c ELSE CharAt(UpperLetters, IndexIn(LowerLetters, c))

RECURSIVE toLowerCase(_)
toLowerCase(s) ==
  IF Len(s) = 0 THEN "" ELSE ToLowerChar(CharAt(s, 1)) \o toLowerCase(SubSeq(s, 2, Len(s)))

RECURSIVE toUpperCase(_)
toUpperCase(s) ==
  IF Len(s) = 0 THEN "" ELSE ToUpperChar(CharAt(s, 1)) \o toUpperCase(SubSeq(s, 2, Len(s)))

\* s has t at position i (1-based)
StartsWithAt(s, i, t) == i >= 1 /\ i + Len(t) - 1 <= Len(s) /\ SubSeq(s, i, i + Len(t) - 1) = t

\* String.prototype.includes
includes(s, t) == \E i \in 1..(Len(s) - Len(t) + 1) : StartsWithAt(s, i, t)

\* Array.prototype.some over the trigger phrases of one pattern
some(keys, lower) == \E k \in 1..Len(keys) : includes(lower, keys[k])

(***************************************************************************)
(* Pattern tables                                                          *)
(*                                                                         *)
(* The explanation and components texts are written in ASCII: a            *)
(* superscript two is ^2, a Greek letter is spelled out.  The trigger      *)
(* phrases and the LaTeX are character for character those of the source.  *)
(***************************************************************************)
\* equation-generator.ts: const patterns
patterns == <<
  [keys |-> <<"quadratic formula">>,
   latex |-> "x = \\frac{-b \\pm \\sqrt{b^2 - 4ac}}{2a}",
   explanation |-> "Solution to ax^2+bx+c=0."],
  [keys |-> <<"pythagorean theorem">>,
   latex |-> "a^2 + b^2 = c^2",
   explanation |-> "Right-triangle side relation."],
  [keys |-> <<"euler identity", "euler's identity">>,
   latex |-> "e^{i\\pi} + 1 = 0",
   explanation |-> "Links e, i, pi, 1, 0."]
>>

\* math-symbols-library.ts: const equationPatterns
equationPatterns == <<
  [patterns |-> <<"quadratic formula", "quadratic equation solution">>,
   latex |-> "x = \\frac{-b \\pm \\sqrt{b^2 - 4ac}}{2a}",
   components |-> <<"variable x", "coefficients a, b, c", "square root", "plus-minus operator">>,
   explanation |-> "The quadratic formula provides solutions to any quadratic equation ax^2 + bx + c = 0."],
  [patterns |-> <<"pythagorean theorem", "right triangle relation">>,
   latex |-> "a^2 + b^2 = c^2",
   components |-> <<"sides a and b", "hypotenuse c", "squared terms">>,
   explanation |-> "The Pythagorean theorem relates the sides of a right triangle."],
  [patterns |-> <<"euler identity", "euler's formula", "euler's identity">>,
   latex |-> "e^{i\\pi} + 1 = 0",
   components |-> <<"euler's number e", "imaginary unit i", "pi constant", "exponential function">>,
   explanation |-> "Euler's identity connects five fundamental mathematical constants in a single formula."],
  [patterns |-> <<"normal distribution", "gaussian distribution", "probability density function", "pdf normal">>,
   latex |-> "f(x | \\mu, \\sigma^2) = \\frac{1}{\\sqrt{2\\pi\\sigma^2}} e^{-\\frac{(x-\\mu)^2}{2\\sigma^2}}",
   components |-> <<"function notation", "mean mu", "variance sigma^2", "exponential function", "fraction">>,
   explanation |-> "The normal distribution probability density function describes the distribution of continuous data."],
  [patterns |-> <<"maxwell equation", "gauss's law", "electric field divergence">>,
   latex |-> "\\nabla \\cdot \\mathbf{E} = \\frac{\\rho}{\\epsilon_0}",
   components |-> <<"nabla operator", "dot product", "electric field vector", "charge density", "vacuum permittivity">>,
   explanation |-> "Gauss's law for electricity (one of Maxwell's equations) relates electric field to charge density."],
  [patterns |-> <<"navier-stokes", "fluid dynamics equation">>,
   latex |-> "\\rho \\left( \\frac{\\partial \\vec{v}}{\\partial t} + \\vec{v} \\cdot \\nabla \\vec{v} \\right) = -\\nabla p + \\nabla \\cdot \\mathbf{T} + \\vec{f}",
   components |-> <<"density rho", "velocity vector", "pressure gradient", "stress tensor", "body forces">>,
   explanation |-> "The Navier-Stokes equations describe the motion of fluid substances."],
  [patterns |-> <<"schrodinger equation", "quantum mechanics", "wave function equation">>,
   latex |-> "i\\hbar\\frac{\\partial}{\\partial t}\\Psi(\\mathbf{r},t) = \\hat{H}\\Psi(\\mathbf{r},t)",
   components |-> <<"imaginary unit i", "reduced Planck constant", "wave function", "Hamiltonian operator">>,
   explanation |-> "The Schrodinger equation describes how the quantum state of a physical system changes over time."],
  [patterns |-> <<"einstein field equations", "general relativity", "spacetime curvature">>,
   latex |-> "R_{\\mu\\nu} - \\frac{1}{2}Rg_{\\mu\\nu} + \\Lambda g_{\\mu\\nu} = \\frac{8\\pi G}{c^4}T_{\\mu\\nu}",
   components |-> <<"Ricci curvature tensor", "metric tensor", "cosmological constant", "stress-energy tensor">>,
   explanation |-> "Einstein's field equations describe the fundamental interaction of gravitation in general relativity."],
  [patterns |-> <<"taylor series", "taylor expansion">>,
   latex |-> "f(x) = f(a) + \\frac{f'(a)}{1!}(x-a) + \\frac{f''(a)}{2!}(x-a)^2 + \\frac{f'''(a)}{3!}(x-a)^3 + \\cdots",
   components |-> <<"function values", "derivatives", "factorial notation", "power series">>,
   explanation |-> "A Taylor series expands a function into an infinite sum of terms derived from the function's derivatives at a single point."],
  [patterns |-> <<"fourier transform", "fourier analysis">>,
   latex |-> "\\mathcal{F}[f(t)] = F(\\omega) = \\int_{-\\infty}^{\\infty} f(t) e^{-i\\omega t} dt",
   components |-> <<"integral", "function in time domain", "exponential term", "angular frequency">>,
   explanation |-> "The Fourier transform converts a function of time to a function of frequency."]
>>

(***************************************************************************)
(* Pattern Matcher, equation-generator.ts                                  *)
(***************************************************************************)
\* the result object built at lines 71-75
PatternResult(p) ==
  [latex |-> p.latex, preview |-> "Preview:\n" \o p.latex, explanation |-> p.explanation]

\* the for-of loop of lines 69-76, from table index i on
RECURSIVE ScanPatterns(_, _)
ScanPatterns(lower, i) ==
  IF i > Len(patterns) THEN Null
  ELSE IF some(patterns[i].keys, lower) THEN PatternResult(patterns[i])
  ELSE ScanPatterns(lower, i + 1)

\* a matcher that compares the description as typed
matchKnownEquationPatternCaseSensitive(desc) == ScanPatterns(desc, 1)

matchKnownEquationPattern(desc) == ScanPatterns(toLowerCase(desc), 1)

(***************************************************************************)
(* Pattern Matcher, older copy in math-symbols-library.ts                  *)
(***************************************************************************)
Digits == "0123456789"
IsDigit(c) == IndexIn(Digits, c) # 0

\* characters the regular-expression dot does not match
LineTerminators == {"\n", "\r"}
\* characters String.prototype.trim removes
WhiteSpace == {" ", "\t", "\n", "\r", "\f"}

RECURSIVE trimStart(_)
trimStart(s) ==
  IF Len(s) > 0 /\ CharAt(s, 1) \in WhiteSpace THEN trimStart(SubSeq(s, 2, Len(s))) ELSE s

RECURSIVE trimEnd(_)
trimEnd(s) ==
  IF Len(s) > 0 /\ CharAt(s, Len(s)) \in WhiteSpace THEN trimEnd(SubSeq(s, 1, Len(s) - 1)) ELSE s

trim(s) == trimEnd(trimStart(s))

\* parseInt of a string of decimal digits
RECURSIVE parseInt(_)
parseInt(s) ==
  IF Len(s) = 0 THEN 0
  ELSE 10 * parseInt(SubSeq(s, 1, Len(s) - 1)) + (IndexIn(Digits, CharAt(s, Len(s))) - 1)

\* the decimal text a template literal gives an integer
RECURSIVE NatToString(_)
NatToString(n) ==
  IF n < 10 THEN CharAt(Digits, n + 1)
  ELSE NatToString(n \div 10) \o CharAt(Digits, (n % 10) + 1)

NumberToString(n) == IF n < 0 THEN "-" \o NatToString(0 - n) ELSE NatToString(n)

\* lengths k >= 1 the lazy group .+? may take from position b on: k characters
\* that are not line terminators, followed by "with respect to" or the end
LazyLengths(s, b) ==
  { k \in 1..(Len(s) - b + 1) :
      /\ \A j \in b..(b + k - 1) : CharAt(s, j) \notin LineTerminators
      /\ (b + k - 1 = Len(s) \/ StartsWithAt(s, b + k, "with respect to")) }

Min(S) == CHOOSE k \in S : \A m \in S : k <= m

\* exec's null: the groups of the regular expressions below are never empty
NoMatch == ""

\* group 1 of /(?:verbs[1]|verbs[2]) (f\(x\) = .+?)(?:with respect to|$)/
\* matched with its first character at position i, NoMatch when it does not
\* match there
FunctionMatchAt(s, i, verbs) ==
  LET alts == { v \in 1..Len(verbs) :
                  /\ StartsWithAt(s, i, verbs[v] \o " f(x) = ")
                  /\ LazyLengths(s, i + Len(verbs[v]) + 8) # {} }
  IN IF alts = {} THEN NoMatch
     ELSE LET v == Min(alts)
              g == i + Len(verbs[v]) + 1
          IN SubSeq(s, g, g + 6 + Min(LazyLengths(s, g + 7)))

\* RegExp.prototype.exec: the leftmost position that matches
RECURSIVE FunctionMatchFrom(_, _, _)
FunctionMatchFrom(s, i, verbs) ==
  IF i > Len(s) THEN NoMatch
  ELSE IF FunctionMatchAt(s, i, verbs) # NoMatch THEN FunctionMatchAt(s, i, verbs)
  ELSE FunctionMatchFrom(s, i + 1, verbs)

DerivativeVerbs == <<"derivative of", "differentiate">>
IntegralVerbs == <<"integral of", "integrate">>

\* /f\(x\) = (.+)/.exec(functionText): group 1, the greedy run of characters
\* up to the first line terminator, at the leftmost position that matches
ExpressionMatch(functionText) ==
  LET starts == { p \in 1..Len(functionText) :
                    /\ StartsWithAt(functionText, p, "f(x) = ")
                    /\ p + 7 <= Len(functionText)
                    /\ CharAt(functionText, p + 7) \notin LineTerminators }
  IN IF starts = {} THEN NoMatch
     ELSE LET b == Min(starts) + 7
              ends == { e \in b..Len(functionText) :
                          /\ \A j \in b..e : CharAt(functionText, j) \notin LineTerminators
                          /\ (e = Len(functionText)
                              \/ CharAt(functionText, e + 1) \in LineTerminators) }
          IN SubSeq(functionText, b, Min(ends))

\* expression.match(/^x\^(\d+)$/)
IsPower(expression) ==
  /\ Len(expression) >= 3
  /\ SubSeq(expression, 1, 2) = "x^"
  /\ \A j \in 3..Len(expression) : IsDigit(CharAt(expression, j))

handleDerivative(functionText) ==
  IF ExpressionMatch(functionText) = NoMatch
  THEN [latex |-> "\\frac{d}{dx}[?]", preview |-> "Could not parse function for differentiation"]
  ELSE LET expression == trim(ExpressionMatch(functionText))
           power == parseInt(SubSeq(expression, 3, Len(expression)))
           derivative ==
             IF IsPower(expression)
             THEN (IF power = 1 THEN "1"
                   ELSE IF power = 2 THEN "2x"
                   ELSE NumberToString(power) \o "x^{" \o NumberToString(power - 1) \o "}")
             ELSE IF expression = "sin(x)" THEN "cos(x)"
             ELSE IF expression = "cos(x)" THEN "-sin(x)"
             ELSE IF expression = "e^x" THEN "e^x"
             ELSE IF expression = "ln(x)" THEN "\\frac{1}{x}"
             ELSE "\\frac{d}{dx}[" \o expression \o "]"
           explanation ==
             IF IsPower(expression) THEN "Using the power rule: d/dx(x^n) = n*x^(n-1)"
             ELSE IF expression = "sin(x)" THEN "The derivative of sin(x) is cos(x)"
             ELSE IF expression = "cos(x)" THEN "The derivative of cos(x) is -sin(x)"
             ELSE IF expression = "e^x" THEN "The derivative of e^x is e^x"
             ELSE IF expression = "ln(x)" THEN "The derivative of ln(x) is 1/x"
             ELSE "Symbolic representation of the derivative"
       IN [latex |-> derivative, preview |-> "Preview: " \o derivative,
           explanation |-> explanation]

handleIntegration(functionText) ==
  IF ExpressionMatch(functionText) = NoMatch
  THEN [latex |-> "\\int{?}\\,dx", preview |-> "Could not parse function for integration"]
  ELSE LET expression == trim(ExpressionMatch(functionText))
           newPower == parseInt(SubSeq(expression, 3, Len(expression))) + 1
           integral ==
             IF IsPower(expression)
             THEN "\\frac{x^{" \o NumberToString(newPower) \o "}}{"
                    \o NumberToString(newPower) \o "} + C"
             ELSE IF expression = "sin(x)" THEN "-cos(x) + C"
             ELSE IF expression = "cos(x)" THEN "sin(x) + C"
             ELSE IF expression = "e^x" THEN "e^x + C"
             ELSE IF expression = "1/x" THEN "ln|x| + C"
             ELSE "\\int{" \o expression \o "}\\,dx"
           explanation ==
             IF IsPower(expression) THEN "Using the power rule: int x^n dx = x^(n+1)/(n+1) + C"
             ELSE IF expression = "sin(x)" THEN "The integral of sin(x) is -cos(x) + C"
             ELSE IF expression = "cos(x)" THEN "The integral of cos(x) is sin(x) + C"
             ELSE IF expression = "e^x" THEN "The integral of e^x is e^x + C"
             ELSE IF expression = "1/x" THEN "The integral of 1/x is ln|x| + C"
             ELSE "Symbolic representation of the integral"
       IN [latex |-> integral, preview |-> "Preview: " \o integral,
           explanation |-> explanation]

\* the result object built at lines 253-258
PatternResultOld(p) ==
  [latex |-> p.latex, preview |-> "Preview: " \o p.latex,
   components |-> p.components, explanation |-> p.explanation]

\* a scan in which a later table entry overrides an earlier one
RECURSIVE ScanEquationPatternsLastWins(_, _)
ScanEquationPatternsLastWins(lowerDesc, i) ==
  IF i > Len(equationPatterns) THEN Null
  ELSE IF ScanEquationPatternsLastWins(lowerDesc, i + 1) # Null
  THEN ScanEquationPatternsLastWins(lowerDesc, i + 1)
  ELSE IF some(equationPatterns[i].patterns, lowerDesc) THEN PatternResultOld(equationPatterns[i])
  ELSE Null

\* the for-of loop of lines 251-260, from table index i on
RECURSIVE ScanEquationPatterns(_, _)
ScanEquationPatterns(lowerDesc, i) ==
  IF i > Len(equationPatterns) THEN Null
  ELSE IF some(equationPatterns[i].patterns, lowerDesc) THEN PatternResultOld(equationPatterns[i])
  ELSE ScanEquationPatterns(lowerDesc, i + 1)

\* a special case entered on the keyword alone
DerivativeCaseOnKeyword(lowerDesc) ==
  includes(lowerDesc, "derivative") \/ includes(lowerDesc, "differentiate")

\* lines 262-269: the derivative special case applies
DerivativeCase(lowerDesc) ==
  /\ includes(lowerDesc, "derivative") \/ includes(lowerDesc, "differentiate")
  /\ FunctionMatchFrom(lowerDesc, 1, DerivativeVerbs) # NoMatch

\* lines 271-278: the integration special case applies
IntegrationCase(lowerDesc) ==
  /\ includes(lowerDesc, "integral") \/ includes(lowerDesc, "integrate")
  /\ FunctionMatchFrom(lowerDesc, 1, IntegralVerbs) # NoMatch

\* lines 262-281, what follows a table scan without a hit
SpecialCases(lowerDesc) ==
  IF DerivativeCase(lowerDesc)
  THEN handleDerivative(FunctionMatchFrom(lowerDesc, 1, DerivativeVerbs))
  ELSE IF IntegrationCase(lowerDesc)
  THEN handleIntegration(FunctionMatchFrom(lowerDesc, 1, IntegralVerbs))
  ELSE Null

matchKnownEquationPatternOld(desc) ==
  LET lowerDesc == toLowerCase(desc)
  IN IF ScanEquationPatterns(lowerDesc, 1) # Null
     THEN ScanEquationPatterns(lowerDesc, 1)
     ELSE SpecialCases(lowerDesc)

(***************************************************************************)
(* Inputs                                                                  *)
(***************************************************************************)
\* how many times a description repeats its padding words
MaxPad == 1

Indices(seq) == 1..Len(seq)

\* every trigger phrase of either table
TriggerPhrases ==
  UNION { { patterns[i].keys[k] : k \in Indices(patterns[i].keys) } : i \in Indices(patterns) }
  \cup
  UNION { { equationPatterns[i].patterns[k] : k \in Indices(equationPatterns[i].patterns) } :
          i \in Indices(equationPatterns) }

RECURSIVE Repeat(_, _)
Repeat(s, n) == IF n = 0 THEN "" ELSE s \o Repeat(s, n - 1)

\* letters alternately upper and lower case, starting in upper case
RECURSIVE MixedCase(_)
MixedCase(s) ==
  IF Len(s) = 0 THEN ""
  ELSE IF Len(s) = 1 THEN ToUpperChar(s)
  ELSE ToUpperChar(CharAt(s, 1)) \o ToLowerChar(CharAt(s, 2)) \o MixedCase(SubSeq(s, 3, Len(s)))

CaseModes == {"lower", "upper", "mixed"}
ApplyCase(mode, s) ==
  IF mode = "upper" THEN toUpperCase(s)
  ELSE IF mode = "mixed" THEN MixedCase(s)
  ELSE toLowerCase(s)

\* "prefix " + T + " suffix", with the padding repeated n times
Padded(T, n) == Repeat("prefix ", n) \o T \o Repeat(" suffix", n)

PaddedDescriptions ==
  { ApplyCase(m, Padded(T, n)) : T \in TriggerPhrases, m \in CaseModes, n \in 0..MaxPad }

\* two trigger phrases in one description, in either order
PairDescriptions ==
  { T1 \o " and " \o T2 : T1 \in TriggerPhrases, T2 \in TriggerPhrases }

\* descriptions without a trigger phrase, and the special cases of the older copy
OtherDescriptions ==
  { "", "hello world", "quadratic", "Euler", "the derivative", "integral", "integrate f(x)",
    "derivative of f(x) = x^2", "Derivative of f(x) = x^3 with respect to x",
    "derivative of f(x) = x^1", "derivative of f(x) = x^10", "derivative of f(x) = x^0",
    "differentiate f(x) = sin(x)", "derivative of f(x) = cos(x)", "derivative of f(x) = e^x",
    "what is the derivative? differentiate f(x) = ln(x)", "derivative of f(x) = tan(x)",
    "derivative of f(x) = ", "derivative of g(x) = x", "derivative of f(x) = x\nplease",
    "derivative of f(x) = with respect to",
    "integrate f(x) = x^2", "integral of f(x) = 1/x", "INTEGRATE f(x) = cos(x) with respect to x",
    "integrate f(x) = e^x", "integrate f(x) = sin(x)", "integrate f(x) = tan(x)",
    "integrate f(x) = \rx", "integral of f(x) = x^3 and derivative of f(x) = x^3",
    "derivative of the quadratic formula", "integrate f(x) = taylor series" }

Descriptions == PaddedDescriptions \cup PairDescriptions \cup OtherDescriptions

(***************************************************************************)
(* The matcher applied to one description                                  *)
(***************************************************************************)
FormatIdle ==
  /\ fPc = "idle" /\ fImpl = "none" /\ fBody = "" /\ fFmt = Absent /\ fNum = Absent /\ fOut = ""

GenIdle ==
  /\ pc = "idle" /\ impl = "none" /\ description = "" /\ format = Absent /\ numbered = Absent
  /\ cached = Null /\ reply = [kind |-> "none"] /\ events = <<>> /\ outcome = [status |-> "none"]

MatchIdle == mPc = "idle" /\ mImpl = "none" /\ mDesc = "" /\ mOut = Null

\* the static command registry, in insertion order
VALID_MATH_COMMANDS == <<
  "alpha", "beta", "gamma", "delta", "epsilon", "varepsilon", "zeta", "eta", "theta", "vartheta",
  "iota", "kappa", "lambda", "mu", "nu", "xi", "pi", "varpi", "rho", "varrho", "sigma", "varsigma",
  "tau", "upsilon", "phi", "varphi", "chi", "psi", "omega",
  "Gamma", "Delta", "Theta", "Lambda", "Xi", "Pi", "Sigma", "Upsilon", "Phi", "Psi", "Omega",
  "leq", "geq", "equiv", "neq", "sim", "approx", "cong", "propto", "prec", "succ", "preceq", "succeq",
  "ll", "gg", "subset", "supset", "subseteq", "supseteq", "in", "ni", "vdash", "dashv",
  "pm", "mp", "times", "div", "cdot", "ast", "star", "cap", "cup", "vee", "wedge", "oplus", "otimes",
  "circ", "bullet", "diamond", "Box", "triangleleft", "triangleright", "dagger", "ddagger",
  "sum", "prod", "int", "oint", "bigcap", "bigcup", "bigvee", "bigwedge", "bigoplus", "bigotimes",
  "leftarrow", "Leftarrow", "rightarrow", "Rightarrow", "leftrightarrow", "Leftrightarrow",
  "mapsto", "hookleftarrow", "hookrightarrow", "uparrow", "Uparrow", "downarrow", "Downarrow",
  "updownarrow", "Updownarrow", "longleftarrow", "Longleftarrow", "longrightarrow", "Longrightarrow",
  "longleftrightarrow", "Longleftrightarrow",
  "langle", "rangle", "lfloor", "rfloor", "lceil", "rceil", "lbrace", "rbrace",
  "mathbf", "mathit", "mathsf", "mathrm", "mathcal", "mathbb", "mathfrak", "mathscr",
  "infty", "nabla", "partial", "emptyset", "exists", "forall", "neg", "triangle", "angle", "hbar",
  "imath", "jmath", "ell", "wp", "Re", "Im", "aleph", "beth", "gimel", "bot", "top",
  "arccos", "arcsin", "arctan", "arg", "cos", "cosh", "cot", "coth", "csc", "deg", "det", "dim",
  "exp", "gcd", "hom", "inf", "ker", "lg", "lim", "liminf", "limsup", "ln", "log", "max", "min",
  "Pr", "sec", "sin", "sinh", "sup", "tan", "tanh",
  "hat", "check", "breve", "acute", "grave", "tilde", "bar", "vec", "dot", "ddot",
  "frac", "sqrt", "overline", "underline", "overbrace", "underbrace", "widehat", "widetilde",
  "overleftarrow", "overrightarrow",
  "matrix", "pmatrix", "bmatrix", "Bmatrix", "vmatrix", "Vmatrix", "array",
  "begin", "end", "left", "right", "big", "Big", "bigg", "Bigg",
  "quad", "qquad", "hspace", "vspace", "thickspace", "medspace", "thinspace",
  "operatorname", "limits",
  "equation", "equation*", "align", "align*", "gather", "gather*", "multline", "multline*",
  "split", "cases", "aligned", "gathered",
  "text", "textbf", "textit", "textrm", "textsf", "texttt", "textsc",
  "newcommand", "renewcommand", "section", "subsection", "subsubsection",
  "mbox", "hfill", "vfill",
  "unit", "meter", "gram", "second", "ampere", "kelvin", "mole", "candela",
  "LaTeX", "TeX"
>>

ValidateIdle == vPc = "idle" /\ vImpl = "none" /\ vIn = "" /\ vOut = [status |-> "none"]

SuggestIdle == sPc = "idle" /\ sBad = "" /\ sOut = <<>>

\* the Set is built once, when the module is loaded
RegistryLoaded == registry = VALID_MATH_COMMANDS

NoCalls == trace = <<>>

\* a Map with no entry
EmptyMap == [k \in {} |-> Absent]

\* the addresses requests come from
Addresses == {"10.0.0.1", "10.0.0.2"}

LimiterIdle ==
  now = 0 /\ requestCounts = EmptyMap /\ arrivals = [ip \in Addresses |-> <<>>]

\* the background script has received no message; nothing is stored
ExtensionIdle ==
  /\ xImpl = "background.js" /\ storage = EmptyMap /\ messages = <<>>
  /\ xPc = <<>> /\ posts = <<>> /\ served = <<>> /\ sent = <<>>

\* no request was executed, no tool was registered
NoRequest == [tool |-> Absent]
NoRegister == [name |-> Absent]

\* the server as its constructor leaves it, with a configuration that is valid
ServerIdle ==
  /\ config = [apiKey |-> "key", port |-> 3000]
  /\ isInitialized = FALSE /\ app = <<>> /\ tools = EmptyMap /\ toolHandlers = EmptyMap
  /\ requestHandlers = EmptyMap /\ mcpTools = {} /\ listening = 0 /\ calls = <<>>
  /\ executed = NoRequest /\ lastRegister = NoRegister

HostIdle == LimiterIdle /\ ExtensionIdle /\ ServerIdle

DistIdle == dPc = "idle" /\ dA = "" /\ dB = "" /\ dOut = 0

MatchInit ==
  /\ mPc = "input" /\ mImpl = "none" /\ mDesc \in Descriptions /\ mOut = Null
  /\ FormatIdle /\ GenIdle /\ ValidateIdle /\ SuggestIdle /\ DistIdle /\ RegistryLoaded /\ NoCalls /\ HostIdle

ApplyMatch ==
  /\ mPc = "input"
  /\ mPc' = "done" /\ mImpl' = "new"
  /\ mOut' = matchKnownEquationPattern(mDesc)
  /\ UNCHANGED <<mDesc, exceptMatchVars>>

ApplyMatchOld ==
  /\ mPc = "input"
  /\ mPc' = "done" /\ mImpl' = "old"
  /\ mOut' = matchKnownEquationPatternOld(mDesc)
  /\ UNCHANGED <<mDesc, exceptMatchVars>>

MatchNext == ApplyMatch \/ ApplyMatchOld

SpecMatch == MatchInit /\ [][MatchNext]_vars

(***************************************************************************)
(* Properties of the matcher                                               *)
(***************************************************************************)
TableLen(who) == IF who = "new" THEN Len(patterns) ELSE Len(equationPatterns)
KeysOf(who, i) == IF who = "new" THEN patterns[i].keys ELSE equationPatterns[i].patterns
LatexOf(who, i) == IF who = "new" THEN patterns[i].latex ELSE equationPatterns[i].latex
ExplanationOf(who, i) ==
  IF who = "new" THEN patterns[i].explanation ELSE equationPatterns[i].explanation

\* the table entries with a trigger phrase inside the lowercased description
HitSet(who, d) ==
  LET lower == toLowerCase(d)
  IN { i \in 1..TableLen(who) :
         \E k \in Indices(KeysOf(who, i)) : includes(lower, KeysOf(who, i)[k]) }

\* C2: when the description contains trigger phrases of two or more patterns,
\* the matcher returns the canonical LaTeX and the explanation of the pattern
\* listed earliest in the table, wherever the phrases stand in the description.
C2_EarliestPatternWins ==
  mPc = "done" =>
    LET hits == HitSet(mImpl, mDesc)
    IN Cardinality(hits) >= 2 =>
         /\ mOut # Null
         /\ mOut.latex = LatexOf(mImpl, Min(hits))
         /\ mOut.explanation = ExplanationOf(mImpl, Min(hits))

\* the phrase of the last table entry stands before the phrase of the first
C2_Witness ==
  /\ mPc = "done" /\ mImpl = "old"
  /\ mDesc = "fourier analysis and quadratic equation solution"
  /\ HitSet(mImpl, mDesc) = {1, 10}
  /\ mOut # Null
  /\ mOut.latex = equationPatterns[1].latex

\* C3: for every pattern P and trigger phrase T of P, the description
\* "prefix " + T + " suffix" in lower, upper or mixed case is answered with
\* P's own canonical LaTeX.
C3_PaddedTriggerMatchesOwnPattern ==
  mPc = "done" =>
    \A i \in 1..TableLen(mImpl) : \A k \in Indices(KeysOf(mImpl, i)) : \A n \in 0..MaxPad :
      (/\ Len(mDesc) = Len(Padded(KeysOf(mImpl, i)[k], n))
       /\ \E m \in CaseModes : mDesc = ApplyCase(m, Padded(KeysOf(mImpl, i)[k], n))) =>
        (mOut # Null /\ mOut.latex = LatexOf(mImpl, i))

C3_Witness ==
  /\ mPc = "done" /\ mImpl = "new"
  /\ mDesc = "PREFIX EULER'S IDENTITY SUFFIX"
  /\ mOut # Null
  /\ mOut.latex = "e^{i\\pi} + 1 = 0"

\* s has verbs[v] + " f(x) = " followed by one or more characters without a
\* line break and then by "with respect to" or the end of s
FunctionRequest(s, verbs) ==
  \E v \in Indices(verbs) : \E i \in 1..Len(s) : \E k \in 1..Len(s) :
    LET b == i + Len(verbs[v]) + 8
    IN /\ StartsWithAt(s, i, verbs[v] \o " f(x) = ")
       /\ b + k - 1 <= Len(s)
       /\ \A j \in b..(b + k - 1) : CharAt(s, j) \notin {"\n", "\r"}
       /\ (b + k - 1 = Len(s) \/ StartsWithAt(s, b + k, "with respect to"))

\* C4 as stated: without a trigger phrase in the description the matcher
\* returns null, in both copies.
C4_NoTriggerReturnsNull ==
  (mPc = "done" /\ HitSet(mImpl, mDesc) = {}) => mOut = Null

\* C4 as amended: without a trigger phrase the matcher of equation-generator.ts
\* returns null; the older copy returns null exactly when the lowercased
\* description also holds no derivative or integration request
\* ("derivative of f(x) = ...", "differentiate f(x) = ...", "integral of
\* f(x) = ...", "integrate f(x) = ..."), and a handler result otherwise.
C4_NoTriggerNullUnlessFunctionRequest ==
  (mPc = "done" /\ HitSet(mImpl, mDesc) = {}) =>
    /\ mImpl = "new" => mOut = Null
    /\ mImpl = "old" =>
         (mOut = Null <=> (/\ ~FunctionRequest(toLowerCase(mDesc), <<"derivative of", "differentiate">>)
                           /\ ~FunctionRequest(toLowerCase(mDesc), <<"integral of", "integrate">>)))

C4_Witness ==
  /\ mPc = "done" /\ mImpl = "old"
  /\ mDesc = "derivative of f(x) = x^2"
  /\ HitSet(mImpl, mDesc) = {}
  /\ mOut # Null
  /\ mOut.latex = "2x"

(***************************************************************************)
(* Result formatters                                                       *)
(***************************************************************************)
Formats == {"inline", "display", "align", "gather", "multline"}

\* numbered ? a : b -- undefined is falsy
Truthy(flag) == flag = "true"

\* equation-generator.ts with the unnumbered display form of the older copy
wrapStarredDisplay(latex, fmt, flag) ==
  IF fmt = "inline" THEN "$" \o latex \o "$"
  ELSE IF fmt \in {"align", "gather", "multline"}
  THEN (IF Truthy(flag) THEN "\\begin{" \o fmt \o "}\n  " \o latex \o "\n\\end{" \o fmt \o "}"
        ELSE "\\begin{" \o fmt \o "*}\n  " \o latex \o "\n\\end{" \o fmt \o "*}")
  ELSE IF fmt = "display" /\ Truthy(flag)
  THEN "\\begin{equation}\n  " \o latex \o "\n\\end{equation}"
  ELSE IF fmt = "display" THEN "\\begin{equation*}\n  " \o latex \o "\n\\end{equation*}"
  ELSE latex

\* equation-generator.ts, formatEquationResult: the switch of lines 122-145
wrap(latex, fmt, flag) ==
  CASE fmt = "inline" -> "$" \o latex \o "$"
    [] fmt = "display" ->
         IF Truthy(flag) THEN "\\begin{equation}\n  " \o latex \o "\n\\end{equation}"
         ELSE "\\[\n  " \o latex \o "\n\\]"
    [] fmt = "align" ->
         IF Truthy(flag) THEN "\\begin{align}\n  " \o latex \o "\n\\end{align}"
         ELSE "\\begin{align*}\n  " \o latex \o "\n\\end{align*}"
    [] fmt = "gather" ->
         IF Truthy(flag) THEN "\\begin{gather}\n  " \o latex \o "\n\\end{gather}"
         ELSE "\\begin{gather*}\n  " \o latex \o "\n\\end{gather*}"
    [] fmt = "multline" ->
         IF Truthy(flag) THEN "\\begin{multline}\n  " \o latex \o "\n\\end{multline}"
         ELSE "\\begin{multline*}\n  " \o latex \o "\n\\end{multline*}"
    [] OTHER -> latex

\* a slice that loses the last character of the wrapped body
formatEquationResultCutShort(src, fmt, flag) ==
  [result |-> [src EXCEPT !.latex = SubSeq(wrap(src.latex, fmt, flag), 1,
                                           Len(wrap(src.latex, fmt, flag)) - 1)]]

\* equation-generator.ts, formatEquationResult: preview, components and
\* explanation are copied from src, latex is the wrapped body
formatEquationResult(src, fmt, flag) ==
  [result |-> [src EXCEPT !.latex = wrap(src.latex, fmt, flag)]]

\* the older switch with a numbered inline form
formattedLatexNumberedInline(latex, fmt, flag) ==
  IF fmt = "inline" /\ Truthy(flag) THEN "\\begin{math}" \o latex \o "\\end{math}"
  ELSE IF fmt = "inline" THEN "$" \o latex \o "$"
  ELSE IF fmt \in {"align", "gather", "multline"} /\ Truthy(flag)
  THEN "\\begin{" \o fmt \o "}\n  " \o latex \o "\n\\end{" \o fmt \o "}"
  ELSE IF fmt \in {"align", "gather", "multline"}
  THEN "\\begin{" \o fmt \o "*}\n  " \o latex \o "\n\\end{" \o fmt \o "*}"
  ELSE IF fmt = "display" /\ Truthy(flag)
  THEN "\\begin{equation}\n  " \o latex \o "\n\\end{equation}"
  ELSE "\\begin{equation*}\n  " \o latex \o "\n\\end{equation*}"

\* math-symbols-library.ts, formatEquationResult: the switch of lines 407-433;
\* handleEquationGeneration has the same switch at lines 850-876
formattedLatex(latex, fmt, flag) ==
  CASE fmt = "inline" -> "$" \o latex \o "$"
    [] fmt = "display" ->
         IF Truthy(flag) THEN "\\begin{equation}\n  " \o latex \o "\n\\end{equation}"
         ELSE "\\begin{equation*}\n  " \o latex \o "\n\\end{equation*}"
    [] fmt = "align" ->
         IF Truthy(flag) THEN "\\begin{align}\n  " \o latex \o "\n\\end{align}"
         ELSE "\\begin{align*}\n  " \o latex \o "\n\\end{align*}"
    [] fmt = "gather" ->
         IF Truthy(flag) THEN "\\begin{gather}\n  " \o latex \o "\n\\end{gather}"
         ELSE "\\begin{gather*}\n  " \o latex \o "\n\\end{gather*}"
    [] fmt = "multline" ->
         IF Truthy(flag) THEN "\\begin{multline}\n  " \o latex \o "\n\\end{multline}"
         ELSE "\\begin{multline*}\n  " \o latex \o "\n\\end{multline*}"
    [] OTHER -> "\\begin{equation*}\n  " \o latex \o "\n\\end{equation*}"

\* math-symbols-library.ts, formatEquationResult
formatEquationResultOld(result, fmt, flag) ==
  [result |-> [result EXCEPT !.latex = formattedLatex(result.latex, fmt, flag)]]

\* a destructuring without the default of format
DefaultFormatMissing(fmt) == fmt

\* handleEquationGeneration, line 801: format = 'display'
DefaultFormat(fmt) == IF fmt = Absent THEN "display" ELSE fmt

\* handleEquationGeneration, line 801: numbered = false
DefaultNumbered(flag) == IF flag = Absent THEN "false" ELSE flag

\* handleEquationGeneration, lines 801 and 847-883: the response for the
\* LaTeX code extracted from the model's answer
handleEquationGenerationResult(latexCode, fmt, flag) ==
  [result |-> [latex |-> formattedLatex(latexCode, DefaultFormat(fmt), DefaultNumbered(flag)),
               preview |-> "Preview: " \o latexCode]]

(***************************************************************************)
(* A formatter applied to one body                                         *)
(***************************************************************************)
Bodies == {"x", "", "a^2 + b^2 = c^2", "\\frac{1}{2}", "e^{i\\pi} + 1 = 0", "$y$"}

\* what a caller may pass as format: the five environments, other strings,
\* or nothing
FormatInputs == Formats \cup {"equation", "Inline", Absent}
NumberedInputs == {"true", "false", Absent}

FormatInit ==
  /\ fPc = "input" /\ fImpl = "none" /\ fOut = ""
  /\ fBody \in Bodies /\ fFmt \in FormatInputs /\ fNum \in NumberedInputs
  /\ MatchIdle /\ GenIdle /\ ValidateIdle /\ SuggestIdle /\ DistIdle /\ RegistryLoaded /\ NoCalls /\ HostIdle

\* the record a matcher or the model hands to the formatter
SrcOf(body) == [latex |-> body, preview |-> "Preview: " \o body, explanation |-> "about " \o body]

ApplyFormat ==
  /\ fPc = "input"
  /\ fPc' = "done" /\ fImpl' = "new"
  /\ fOut' = formatEquationResult(SrcOf(fBody), fFmt, fNum).result.latex
  /\ UNCHANGED <<fBody, fFmt, fNum, exceptFormatVars>>

ApplyFormatOld ==
  /\ fPc = "input"
  /\ fPc' = "done" /\ fImpl' = "old"
  /\ fOut' = formatEquationResultOld(SrcOf(fBody), fFmt, fNum).result.latex
  /\ UNCHANGED <<fBody, fFmt, fNum, exceptFormatVars>>

ApplyFormatServer ==
  /\ fPc = "input"
  /\ fPc' = "done" /\ fImpl' = "server"
  /\ fOut' = handleEquationGenerationResult(fBody, fFmt, fNum).result.latex
  /\ UNCHANGED <<fBody, fFmt, fNum, exceptFormatVars>>

FormatNext == ApplyFormat \/ ApplyFormatOld \/ ApplyFormatServer

SpecFormat == FormatInit /\ [][FormatNext]_vars

(***************************************************************************)
(* Properties of the formatters                                            *)
(***************************************************************************)
Star(flag) == IF flag = "true" THEN "" ELSE "*"
StarredEquation(x) == "\\begin{equation*}\n  " \o x \o "\n\\end{equation*}"
NumberedEquation(x) == "\\begin{equation}\n  " \o x \o "\n\\end{equation}"

\* C7: formatEquationResult of equation-generator.ts returns '$x$' for inline;
\* for display the equation environment when numbered and \[ \] when not; for
\* align, gather and multline the environment of that name, starred exactly
\* when unnumbered, with the same name in \begin and \end.
C7_ExactWrapping ==
  (fPc = "done" /\ fImpl = "new" /\ fFmt \in Formats) =>
    fOut = (IF fFmt = "inline" THEN "$" \o fBody \o "$"
            ELSE IF fFmt = "display"
            THEN (IF fNum = "true" THEN NumberedEquation(fBody)
                  ELSE "\\[\n  " \o fBody \o "\n\\]")
            ELSE "\\begin{" \o fFmt \o Star(fNum) \o "}\n  " \o fBody
                   \o "\n\\end{" \o fFmt \o Star(fNum) \o "}")

C7_Witness ==
  /\ fPc = "done" /\ fImpl = "new" /\ fBody = "x" /\ fFmt = "display" /\ fNum = "false"
  /\ fOut = "\\[\n  x\n\\]"

\* C8: with environment inline every formatter returns the body between
\* single dollar signs, whatever numbered is.
C8_InlineIgnoresNumbered ==
  (fPc = "done" /\ fFmt = "inline") => fOut = "$" \o fBody \o "$"

C8_Witness ==
  /\ fPc = "done" /\ fImpl = "old" /\ fBody = "x" /\ fFmt = "inline" /\ fNum = "true"
  /\ fOut = "$x$"

\* C9 as stated: for an environment value outside the five formats, an absent
\* one included, every formatter returns the body in the starred equation
\* environment.
C9_UnknownFormatStarredEquation ==
  (fPc = "done" /\ fFmt \notin Formats) => fOut = StarredEquation(fBody)

\* C9 as amended: for such a value the older formatEquationResult returns the
\* starred equation environment; handleEquationGeneration does so for every
\* value that is present, and takes an absent value as 'display' (numbered
\* equation when numbered is true); formatEquationResult of
\* equation-generator.ts returns the body without any wrapper.
C9_UnknownFormatPerFormatter ==
  (fPc = "done" /\ fFmt \notin Formats) =>
    /\ fImpl = "old" => fOut = StarredEquation(fBody)
    /\ fImpl = "server" =>
         fOut = (IF fFmt = Absent /\ fNum = "true" THEN NumberedEquation(fBody)
                 ELSE StarredEquation(fBody))
    /\ fImpl = "new" => fOut = fBody

C9_Witness ==
  /\ fPc = "done" /\ fImpl = "server" /\ fBody = "x" /\ fFmt = Absent /\ fNum = "true"
  /\ fOut = "\\begin{equation}\n  x\n\\end{equation}"

(***************************************************************************)
(* generateEquation, both copies, the tool handler of index.ts and the     *)
(* server's handleEquationGeneration                                       *)
(***************************************************************************)
\* the LaTeX code and explanation extracted from an answer of the model
ClaudeAnswers ==
  { [latex |-> "x", explanation |-> "a variable"],
    [latex |-> "E = mc^2", explanation |-> "Mass-energy equivalence."],
    [latex |-> "\\frac{1}{2}", explanation |-> ""] }

\* errors raised by the call to the model
ClaudeErrors ==
  { [origin |-> "claude", name |-> "APIError", message |-> "529 overloaded"],
    [origin |-> "claude", name |-> "TypeError", message |-> "fetch failed"] }

\* new Error(message) created by the code of this repository
NewError(message) == [origin |-> "core", name |-> "Error", message |-> message]

GenDescriptions ==
  { Padded(T, MaxPad) : T \in TriggerPhrases }
  \cup { "", "hello world", "derivative of f(x) = x^2", "integrate f(x) = sin(x)",
         "QUADRATIC FORMULA please", "the derivative" }

\* which generateEquation an entry point runs: the handler of index.ts
\* imports the one of equation-generator.ts
CopyOf(who) == IF who = "tool" THEN "new" ELSE who

\* index.ts handler (line 78) and the parameter destructuring of
\* generateEquation (lines 36 and 158): nothing is filled in
Call ==
  /\ pc = "idle"
  /\ \E who \in {"new", "old", "tool", "server"} : impl' = who
  /\ \E d \in GenDescriptions : description' = d
  /\ \E f \in FormatInputs : format' = f
  /\ \E n \in NumberedInputs : numbered' = n
  /\ pc' = "entered"
  /\ UNCHANGED <<cached, reply, events, outcome, exceptGenVars>>

\* const cached = matchKnownEquationPattern(description)
Match ==
  /\ pc = "entered" /\ impl \in {"new", "old", "tool"}
  /\ cached' = (IF CopyOf(impl) = "new" THEN matchKnownEquationPattern(description)
                ELSE matchKnownEquationPatternOld(description))
  /\ events' = Append(events, "match")
  /\ pc' = "matched"
  /\ UNCHANGED <<impl, description, format, numbered, reply, outcome, exceptGenVars>>

\* a generateEquation that asks the model whatever the matcher returned
PatternMissIgnored(c) == TRUE

\* if (cached) return ...: the fall-through to the model
PatternMiss(c) == c = Null

\* if (cached) return formatEquationResult(cached, format, numbered)
ReturnCached ==
  /\ pc = "matched" /\ ~PatternMiss(cached)
  /\ outcome' = [status |-> "ok",
                 response |-> IF CopyOf(impl) = "new"
                              THEN formatEquationResult(cached, format, numbered)
                              ELSE formatEquationResultOld(cached, format, numbered)]
  /\ pc' = "done"
  /\ UNCHANGED <<impl, description, format, numbered, cached, reply, events, exceptGenVars>>

\* await generateEquationWithClaude(...) / await claude.messages.create(...)
CallClaude ==
  /\ \/ pc = "matched" /\ PatternMiss(cached)
     \/ pc = "entered" /\ impl = "server"
  /\ events' = Append(events, "claude")
  /\ pc' = "awaiting"
  /\ UNCHANGED <<impl, description, format, numbered, cached, reply, outcome, exceptGenVars>>

\* equation-generator.ts, generateEquationWithClaude, line 113
ClaudeResult(a) ==
  [latex |-> a.latex, preview |-> "Preview:\n" \o a.latex, explanation |-> a.explanation]

\* math-symbols-library.ts, generateEquationWithClaude, lines 504-513
ClaudeResultOld(a) ==
  [latex |-> a.latex, preview |-> "Preview: " \o a.latex,
   explanation |-> IF a.explanation = ""
                   THEN "Generated equation based on the provided description."
                   ELSE a.explanation]

\* what each entry point returns once the model has answered
Response(who, a, fmt, flag) ==
  IF CopyOf(who) = "new" THEN formatEquationResult(ClaudeResult(a), fmt, flag)
  ELSE IF who = "old" THEN [result |-> ClaudeResultOld(a)]
  ELSE handleEquationGenerationResult(a.latex, fmt, flag)

\* what each entry point throws once the call to the model has failed with e
Thrown(who, e) ==
  IF CopyOf(who) = "new" THEN e
  ELSE IF who = "old"
  THEN NewError("Failed to generate equation: "
                  \o NewError("Failed to generate equation with Claude.").message)
  ELSE NewError("Failed to generate equation: " \o e.message)

ClaudeResolves ==
  /\ pc = "awaiting"
  /\ \E a \in ClaudeAnswers :
       /\ reply' = [kind |-> "resolved", value |-> a]
       /\ outcome' = [status |-> "ok", response |-> Response(impl, a, format, numbered)]
  /\ pc' = "done"
  /\ UNCHANGED <<impl, description, format, numbered, cached, events, exceptGenVars>>

ClaudeRejects ==
  /\ pc = "awaiting"
  /\ \E e \in ClaudeErrors :
       /\ reply' = [kind |-> "rejected", error |-> e]
       /\ outcome' = [status |-> "error", error |-> Thrown(impl, e)]
  /\ pc' = "done"
  /\ UNCHANGED <<impl, description, format, numbered, cached, events, exceptGenVars>>

\* the call is over; the next one starts from scratch
Return ==
  /\ pc = "done"
  /\ pc' = "idle" /\ impl' = "none" /\ description' = "" /\ format' = Absent
  /\ numbered' = Absent /\ cached' = Null /\ reply' = [kind |-> "none"]
  /\ events' = <<>> /\ outcome' = [status |-> "none"]
  /\ UNCHANGED <<exceptGenVars>>

Init == MatchIdle /\ FormatIdle /\ GenIdle /\ ValidateIdle /\ SuggestIdle /\ DistIdle /\ RegistryLoaded /\ NoCalls /\ HostIdle

Next == Call \/ Match \/ ReturnCached \/ CallClaude \/ ClaudeResolves \/ ClaudeRejects \/ Return

Spec == Init /\ [][Next]_vars

(***************************************************************************)
(* Properties of generateEquation                                          *)
(***************************************************************************)
Positions(e) == { i \in 1..Len(events) : events[i] = e }

\* C1: in both copies of generateEquation the matcher is consulted before the
\* model, the model is called only when the matcher returned nothing, and it
\* is called at most once per call.
C1_MatcherFirstThenAtMostOneCall ==
  impl \in {"new", "old", "tool"} =>
    /\ Cardinality(Positions("claude")) <= 1
    /\ Cardinality(Positions("match")) <= 1
    /\ \A i \in Positions("claude") : \E j \in Positions("match") : j < i
    /\ Positions("claude") # {} => cached = Null
    /\ cached # Null => Positions("claude") = {}

C1_Witness ==
  /\ pc = "done" /\ impl = "old" /\ description = "hello world"
  /\ events = <<"match", "claude">> /\ cached = Null

\* the body the formatter is given: the matcher's when it matched, the
\* model's otherwise
BodyOf == IF cached # Null THEN cached.latex ELSE reply.value.latex

\* C5: generateEquation returns format(body, format, numbered) whether the
\* body came from the matcher or from the model, in both copies.
C5_ResultAlwaysFormatted ==
  (pc = "done" /\ impl \in {"new", "old", "tool"} /\ outcome.status = "ok") =>
    outcome.response.result.latex =
      (IF CopyOf(impl) = "new" THEN wrap(BodyOf, format, numbered)
       ELSE formattedLatex(BodyOf, format, numbered))

\* C6: when the call to the model fails, generateEquation fails with that
\* same error, unchanged, in both copies.
C6_ModelErrorPropagatedUnchanged ==
  (pc = "done" /\ impl \in {"new", "old", "tool"} /\ reply.kind = "rejected") =>
    (outcome.status = "error" /\ outcome.error = reply.error)

\* C10: the tool applies its declared defaults: a request without format is
\* answered as with format = 'display', one without numbered as with
\* numbered = false.
C10_DeclaredDefaultsApplied ==
  (pc = "done" /\ impl = "tool" /\ outcome.status = "ok") =>
    outcome.response.result.latex =
      wrap(BodyOf, IF format = Absent THEN "display" ELSE format,
                   IF numbered = Absent THEN "false" ELSE numbered)

(***************************************************************************)
(* validateEquation, both copies                                           *)
(***************************************************************************)

IsLetter(c) == IndexIn(UpperLetters, c) # 0 \/ IndexIn(LowerLetters, c) # 0

\* (s.match(/c/g) || []).length for a one-character pattern c
MatchCount(s, c) == Cardinality({ i \in 1..Len(s) : CharAt(s, i) = c })

\* String.prototype.split on a one-character separator
RECURSIVE split(_, _)
split(s, sep) ==
  LET at == { i \in 1..Len(s) : CharAt(s, i) = sep }
  IN IF at = {} THEN <<s>>
     ELSE <<SubSeq(s, 1, Min(at) - 1)>> \o split(SubSeq(s, Min(at) + 1, Len(s)), sep)

\* Set.prototype.has on the registry
has(base) == \E i \in Indices(registry) : registry[i] = base

RECURSIVE isValidCommand(_)
isValidCommand(cmd) ==
  IF includes(cmd, "\\")
  THEN LET parts == split(cmd, "\\")
       IN \A k \in Indices(parts) : parts[k] = "" \/ isValidCommand(parts[k])
  ELSE LET base == trim(split(cmd, "{")[1])
       IN IF base = "newcommand" \/ base = "renewcommand" THEN TRUE ELSE has(base)

\* a check that adds the name it was asked about to the Set
RegistryAfterIsValidCommandAdding(cmd) == IF has(cmd) THEN registry ELSE Append(registry, cmd)

\* the Set after isValidCommand: has is its only use of the Set
RegistryAfterIsValidCommand(cmd) == registry

\* /^(n1|n2|...)$/i.test(base) for lower-case names
TestNamesIgnoringCase(names, base) == toLowerCase(base) \in names

GreekLetters ==
  {"alpha", "beta", "gamma", "delta", "epsilon", "varepsilon", "zeta", "eta", "theta", "vartheta",
   "iota", "kappa", "lambda", "mu", "nu", "xi", "pi", "varpi", "rho", "varrho", "sigma", "varsigma",
   "tau", "upsilon", "phi", "varphi", "chi", "psi", "omega"}

categorizeCommand(cmd) ==
  LET base == trim(split(cmd, "{")[1])
  IN IF TestNamesIgnoringCase(GreekLetters, base) THEN "Greek letter"
     ELSE IF TestNamesIgnoringCase({"sum", "prod", "int", "oint", "bigcap", "bigcup", "bigvee", "bigwedge"}, base)
     THEN "Big operator"
     ELSE IF TestNamesIgnoringCase({"frac", "sqrt", "overline", "underline", "vec", "hat", "bar", "dot"}, base)
     THEN "Formatting"
     ELSE IF TestNamesIgnoringCase({"sin", "cos", "tan", "exp", "log", "ln", "lim"}, base) THEN "Function"
     ELSE IF StartsWithAt(base, Len(base) - Len("arrow") + 1, "arrow")
             \/ includes(base, "Rightarrow") \/ includes(base, "Leftarrow") \/ includes(base, "mapsto")
     THEN "Arrow"
     ELSE IF TestNamesIgnoringCase({"leq", "geq", "neq", "approx", "equiv", "cong", "sim"}, base)
     THEN "Relation"
     ELSE IF TestNamesIgnoringCase({"mathbf", "mathit", "mathcal", "mathfrak", "mathbb"}, base)
     THEN "Font style"
     ELSE IF TestNamesIgnoringCase({"begin", "end"}, base) THEN "Environment"
     ELSE "Other"

\* last position of the match of /\\kw\{([^}]+)\}/ that starts at i, 0 when
\* there is none: the name runs to the first closing brace and is not empty
TagEndAt(s, i, kw) ==
  LET open == "\\" \o kw \o "{"
      from == i + Len(open)
      closes == { p \in from..Len(s) : CharAt(s, p) = "}" }
  IN IF StartsWithAt(s, i, open) /\ closes # {} /\ Min(closes) > from THEN Min(closes) ELSE 0

\* s.match(/\\kw\{([^}]+)\}/g) || [] : the matches from position i on, left to
\* right, each search resuming after the previous match
RECURSIVE MatchTags(_, _, _)
MatchTags(s, i, kw) ==
  IF i > Len(s) THEN <<>>
  ELSE LET e == TagEndAt(s, i, kw)
       IN IF e = 0 THEN MatchTags(s, i + 1, kw)
          ELSE <<SubSeq(s, i, e)>> \o MatchTags(s, e + 1, kw)

\* a second match that only accepts environment names made of letters
TagNameLettersOnly(tag, kw) ==
  LET starts == { i \in 1..Len(tag) : TagEndAt(tag, i, kw) # 0 }
      name == SubSeq(tag, Min(starts) + Len(kw) + 2, TagEndAt(tag, Min(starts), kw) - 1)
  IN IF starts = {} \/ \E p \in 1..Len(name) : ~IsLetter(CharAt(name, p)) THEN NoMatch ELSE name

\* tag.match(/\\kw\{([^}]+)\}/) : group 1 of the first match, NoMatch for null
TagName(tag, kw) ==
  LET starts == { i \in 1..Len(tag) : TagEndAt(tag, i, kw) # 0 }
  IN IF starts = {} THEN NoMatch
     ELSE SubSeq(tag, Min(starts) + Len(kw) + 2, TagEndAt(tag, Min(starts), kw) - 1)

\* last position of the match of /\\[a-zA-Z]+/ that starts at i, 0 when none
CommandEndAt(s, i) ==
  IF CharAt(s, i) = "\\" /\ i < Len(s) /\ IsLetter(CharAt(s, i + 1))
  THEN LET stops == { p \in (i + 1)..Len(s) : ~IsLetter(CharAt(s, p)) }
       IN IF stops = {} THEN Len(s) ELSE Min(stops) - 1
  ELSE 0

\* s.match(/\\[a-zA-Z]+/g) || []
RECURSIVE MatchCommands(_, _)
MatchCommands(s, i) ==
  IF i > Len(s) THEN <<>>
  ELSE LET e == CommandEndAt(s, i)
       IN IF e = 0 THEN MatchCommands(s, i + 1)
          ELSE <<SubSeq(s, i, e)>> \o MatchCommands(s, e + 1)

\* String.prototype.substring(1)
substring1(s) == SubSeq(s, 2, Len(s))

Returned(errs) == [status |-> "returned", errors |-> errs]
Threw == [status |-> "threw"]

UnbalancedBraces(open, close) ==
  IF open # close
  THEN <<"Unbalanced braces (" \o NumberToString(open) \o "/" \o NumberToString(close) \o ").">>
  ELSE <<>>

\* a check that objects to any dollar sign at all
UnbalancedDollarsAny(dollars) == IF dollars # 0 THEN <<"Unbalanced $ delimiters.">> ELSE <<>>

UnbalancedDollars(dollars) == IF dollars % 2 # 0 THEN <<"Unbalanced $ delimiters.">> ELSE <<>>

MismatchedBeginEnd(begin, end) ==
  IF Len(begin) # Len(end)
  THEN <<"Mismatched \\begin/\\end (" \o NumberToString(Len(begin)) \o "/"
           \o NumberToString(Len(end)) \o ").">>
  ELSE <<>>

\* a loop that stops at the first unknown command
RECURSIVE UnknownCommandsFirstOnly(_)
UnknownCommandsFirstOnly(cmds) ==
  IF cmds = <<>> THEN <<>>
  ELSE LET name == substring1(Head(cmds))
       IN IF ~isValidCommand(name) THEN <<"Unknown command \\" \o name>>
          ELSE UnknownCommandsFirstOnly(Tail(cmds))

\* the loop over the command tokens of the newer copy
RECURSIVE UnknownCommands(_)
UnknownCommands(cmds) ==
  IF cmds = <<>> THEN <<>>
  ELSE LET name == substring1(Head(cmds))
       IN (IF ~isValidCommand(name) THEN <<"Unknown command \\" \o name>> ELSE <<>>)
          \o UnknownCommands(Tail(cmds))

\* equation-generator.ts
validateEquation(code) ==
  LET open == MatchCount(code, "{")
      close == MatchCount(code, "}")
      dollars == MatchCount(code, "$")
      begin == MatchTags(code, 1, "begin")
      end == MatchTags(code, 1, "end")
  IN Returned(UnbalancedBraces(open, close) \o UnbalancedDollars(dollars)
              \o MismatchedBeginEnd(begin, end) \o UnknownCommands(MatchCommands(code, 1)))

\* the loop over the control sequences of the older copy
RECURSIVE UndefinedControlSequences(_)
UndefinedControlSequences(seqs) ==
  IF seqs = <<>> THEN <<>>
  ELSE (IF ~isValidCommand(substring1(Head(seqs)))
        THEN <<"Potentially undefined control sequence: " \o Head(seqs)>> ELSE <<>>)
       \o UndefinedControlSequences(Tail(seqs))

\* a pairing of the i-th \begin with the i-th \end in document order
RECURSIVE MismatchedPairsSameOrder(_, _, _)
MismatchedPairsSameOrder(beginEnvs, endEnvs, i) ==
  IF i > Len(beginEnvs) THEN <<>>
  ELSE LET beginEnv == TagName(beginEnvs[i], "begin")
           endEnv == TagName(endEnvs[i], "end")
       IN (IF beginEnv # endEnv
           THEN <<"Mismatched environment: \\begin{" \o beginEnv \o "} and \\end{" \o endEnv \o "}">>
           ELSE <<>>)
          \o MismatchedPairsSameOrder(beginEnvs, endEnvs, i + 1)

\* the pairing loop of the older copy from index i on (1-based): the i-th
\* \begin against the i-th \end counted from the back
RECURSIVE MismatchedPairs(_, _, _)
MismatchedPairs(beginEnvs, endEnvs, i) ==
  IF i > Len(beginEnvs) THEN <<>>
  ELSE LET beginEnv == TagName(beginEnvs[i], "begin")
           endEnv == TagName(endEnvs[Len(beginEnvs) + 1 - i], "end")
       IN (IF beginEnv # endEnv
           THEN <<"Mismatched environment: \\begin{" \o beginEnv \o "} and \\end{" \o endEnv \o "}">>
           ELSE <<>>)
          \o MismatchedPairs(beginEnvs, endEnvs, i + 1)

\* a check that only objects to braces left open
UnbalancedBracesOnlyExcessOpen(openBraces, closeBraces) ==
  IF openBraces > closeBraces
  THEN <<"Unbalanced braces: " \o NumberToString(openBraces) \o " opening and "
           \o NumberToString(closeBraces) \o " closing braces">>
  ELSE <<>>

UnbalancedBracesOld(openBraces, closeBraces) ==
  IF openBraces # closeBraces
  THEN <<"Unbalanced braces: " \o NumberToString(openBraces) \o " opening and "
           \o NumberToString(closeBraces) \o " closing braces">>
  ELSE <<>>

UnbalancedDollarsOld(dollarSigns) ==
  IF dollarSigns % 2 # 0 THEN <<"Unbalanced dollar signs for inline math">> ELSE <<>>

MismatchedEnvironments(beginEnvs, endEnvs) ==
  IF Len(beginEnvs) # Len(endEnvs)
  THEN <<"Mismatched environment tags: " \o NumberToString(Len(beginEnvs)) \o " \\begin and "
           \o NumberToString(Len(endEnvs)) \o " \\end tags">>
  ELSE MismatchedPairs(beginEnvs, endEnvs, 1)

\* reading [1] of a null match raises a TypeError
PairingThrows(beginEnvs, endEnvs) ==
  /\ Len(beginEnvs) = Len(endEnvs)
  /\ \E i \in Indices(beginEnvs) :
       TagName(beginEnvs[i], "begin") = NoMatch \/ TagName(endEnvs[i], "end") = NoMatch

\* math-symbols-library.ts
validateEquationOld(latex) ==
  LET openBraces == MatchCount(latex, "{")
      closeBraces == MatchCount(latex, "}")
      dollarSigns == MatchCount(latex, "$")
      beginEnvs == MatchTags(latex, 1, "begin")
      endEnvs == MatchTags(latex, 1, "end")
  IN IF PairingThrows(beginEnvs, endEnvs) THEN Threw
     ELSE Returned(UnbalancedBracesOld(openBraces, closeBraces)
                   \o UnbalancedDollarsOld(dollarSigns)
                   \o MismatchedEnvironments(beginEnvs, endEnvs)
                   \o UndefinedControlSequences(MatchCommands(latex, 1)))

(***************************************************************************)
(* validateEquation applied to one input                                   *)
(***************************************************************************)

MaxTokens == 3

Tokens == {"{", "}", "$", "x", "\\alpha", "\\foo", "\\begin{align}", "\\end{align}", "\\end{gather}", "\\"}

RECURSIVE TokenStrings(_)
TokenStrings(n) ==
  IF n = 0 THEN {""} ELSE {""} \cup { t \o rest : t \in Tokens, rest \in TokenStrings(n - 1) }

EnvTags == {"", "\\begin{align}", "\\begin{gather}", "\\end{align}", "\\end{gather}"}

EnvStrings == { a \o b \o c \o d : a \in EnvTags, b \in EnvTags, c \in EnvTags, d \in EnvTags }

ExampleStrings ==
  {"\\frac{1}{2}", "\\begin{align}x\\end{gather}", "$x$$", "\\nonexistentcmd{x}",
   "\\begin{}", "\\end{}x}", "\\begin{align", "\\begin{equation*}x^2\\end{equation*}",
   "\\begin{a}\\begin{b}\\end{b}\\end{a}", "\\newcommand{\\foo}{x}\\foo", "\\renewcommand\\sum",
   "\\foo\\baz\\foo\\alpha\\baz", "{{$\\begin{align}\\foo", "\\sum_{i=1}^{n} i = \\frac{n(n+1)}{2}",
   "$$$$$$$$$$$", "{{{{{{{{{{{}", "\\alpha2\\beta", "\\\\begin{align}\\end {align}"}

ValidateInputs == TokenStrings(MaxTokens) \cup EnvStrings \cup ExampleStrings

ValidateInit ==
  /\ vPc = "input" /\ vImpl = "none" /\ vIn \in ValidateInputs /\ vOut = [status |-> "none"]
  /\ MatchIdle /\ FormatIdle /\ GenIdle /\ SuggestIdle /\ DistIdle /\ RegistryLoaded /\ NoCalls /\ HostIdle

\* equation-generator.ts
ApplyValidate ==
  /\ vPc = "input"
  /\ vPc' = "done" /\ vImpl' = "new" /\ vOut' = validateEquation(vIn)
  /\ UNCHANGED <<vIn, exceptValidateVars>>

\* math-symbols-library.ts
ApplyValidateOld ==
  /\ vPc = "input"
  /\ vPc' = "done" /\ vImpl' = "old" /\ vOut' = validateEquationOld(vIn)
  /\ UNCHANGED <<vIn, exceptValidateVars>>

ValidateNext == ApplyValidate \/ ApplyValidateOld

SpecValidate == ValidateInit /\ [][ValidateNext]_vars

(***************************************************************************)
(* Properties of validateEquation                                          *)
(***************************************************************************)

RegistryNames == { VALID_MATH_COMMANDS[i] : i \in Indices(VALID_MATH_COMMANDS) }

IsBraceIssue(e) == StartsWithAt(e, 1, "Unbalanced braces")
IsDollarIssue(e) == e \in {"Unbalanced $ delimiters.", "Unbalanced dollar signs for inline math"}
IsEnvironmentIssue(e) == StartsWithAt(e, 1, "Mismatched")
IsUnknownIssue(e) ==
  StartsWithAt(e, 1, "Unknown command") \/ StartsWithAt(e, 1, "Potentially undefined control sequence")

EndsWith(s, t) == StartsWithAt(s, Len(s) - Len(t) + 1, t)

\* the decimal numerals of m and n both occur in e, that of m first
NamesBothCounts(e, m, n) ==
  \E i \in 1..Len(e), j \in 1..Len(e) :
    /\ StartsWithAt(e, i, NumberToString(m))
    /\ StartsWithAt(e, j, NumberToString(n))
    /\ i + Len(NumberToString(m)) <= j

\* the \begin and \end tags of the input, in document order, and their names
BeginTags == MatchTags(vIn, 1, "begin")
EndTags == MatchTags(vIn, 1, "end")
BeginName(i) == SubSeq(BeginTags[i], Len("\\begin{") + 1, Len(BeginTags[i]) - 1)
EndName(i) == SubSeq(EndTags[i], Len("\\end{") + 1, Len(EndTags[i]) - 1)

\* the positions i whose \begin does not pair with the i-th \end from the back
Unpaired == { i \in Indices(BeginTags) : BeginName(i) # EndName(Len(BeginTags) + 1 - i) }

\* the k-th element of a set of numbers, counted from the smallest
Nth(S, k) == CHOOSE i \in S : Cardinality({ j \in S : j < i }) = k - 1

\* the command tokens of the input whose name the registry does not know
IsUnregistered(token) == substring1(token) \notin RegistryNames \cup {"newcommand", "renewcommand"}
UnregisteredTokens == SelectSeq(MatchCommands(vIn, 1), IsUnregistered)

\* C11: in both copies the environment issues are exactly one count issue
\* (naming both counts) when the numbers of \begin and \end tags differ, and
\* otherwise one issue naming both tags for every \begin whose name differs
\* from that of the \end at the mirrored position, and nothing else; for
\* \begin{align}x\end{gather} that is one issue naming align and gather.
C11_EnvironmentIssues ==
  vPc = "done" =>
    /\ vOut.status = "returned"
    /\ LET env == SelectSeq(vOut.errors, IsEnvironmentIssue)
       IN IF Len(BeginTags) # Len(EndTags)
          THEN Len(env) = 1 /\ NamesBothCounts(env[1], Len(BeginTags), Len(EndTags))
          ELSE /\ Len(env) = Cardinality(Unpaired)
               /\ \A k \in Indices(env) :
                    /\ includes(env[k], BeginTags[Nth(Unpaired, k)])
                    /\ includes(env[k], EndTags[Len(BeginTags) + 1 - Nth(Unpaired, k)])

\* C12: an unbalanced-braces issue is reported exactly when the numbers of {
\* and } differ, at most once, and it states both numbers.
C12_BraceIssue ==
  vPc = "done" =>
    /\ vOut.status = "returned"
    /\ LET brace == SelectSeq(vOut.errors, IsBraceIssue)
           open == MatchCount(vIn, "{")
           close == MatchCount(vIn, "}")
       IN /\ Len(brace) = (IF open # close THEN 1 ELSE 0)
          /\ open # close => NamesBothCounts(brace[1], open, close)

C12_Witness ==
  /\ vPc = "done" /\ vImpl = "old" /\ vIn = "{{{{{{{{{{{}"
  /\ vOut = Returned(<<"Unbalanced braces: 11 opening and 1 closing braces">>)

\* C13: exactly one unbalanced-delimiter issue is reported when the number of
\* $ is odd and none when it is even; for $x$$ it is the whole result.
C13_DollarIssue ==
  vPc = "done" =>
    /\ vOut.status = "returned"
    /\ Len(SelectSeq(vOut.errors, IsDollarIssue)) = (IF MatchCount(vIn, "$") % 2 = 1 THEN 1 ELSE 0)
    /\ vIn = "$x$$" => Len(vOut.errors) = 1

C13_Witness ==
  vPc = "done" /\ vImpl = "new" /\ vIn = "$x$$" /\ vOut = Returned(<<"Unbalanced $ delimiters.">>)

\* C14: the unknown-command issues are one per occurrence of a command token
\* whose name is not registered (newcommand and renewcommand count as
\* registered), in order of occurrence; \nonexistentcmd{x} yields exactly one
\* issue, for nonexistentcmd.
C14_UnknownCommandIssues ==
  vPc = "done" =>
    /\ vOut.status = "returned"
    /\ LET unknown == SelectSeq(vOut.errors, IsUnknownIssue)
       IN /\ Len(unknown) = Len(UnregisteredTokens)
          /\ \A k \in Indices(unknown) : EndsWith(unknown[k], " " \o UnregisteredTokens[k])
    /\ vIn = "\\nonexistentcmd{x}" =>
         Len(vOut.errors) = 1 /\ EndsWith(vOut.errors[1], " \\nonexistentcmd")

C14_Witness ==
  /\ vPc = "done" /\ vIn = "\\foo\\baz\\foo\\alpha\\baz"
  /\ vOut.status = "returned" /\ Len(vOut.errors) = 4
  /\ \A k \in 1..4 : EndsWith(vOut.errors[k], <<"\\foo", "\\baz", "\\foo", "\\baz">>[k])

\* an input with nothing to object to
WellFormed ==
  /\ MatchCount(vIn, "{") = MatchCount(vIn, "}")
  /\ MatchCount(vIn, "$") % 2 = 0
  /\ Len(BeginTags) = Len(EndTags) /\ Unpaired = {}
  /\ UnregisteredTokens = <<>>

\* C15: the result is the empty list for every input with as many { as },
\* an even number of $, \begin and \end tags that pair by name in reverse
\* order, and only registered command tokens; \frac{1}{2} is such an input.
C15_WellFormedYieldsNoIssue ==
  /\ vPc = "done" /\ WellFormed => vOut = Returned(<<>>)
  /\ vPc = "done" /\ vIn = "\\frac{1}{2}" => vOut = Returned(<<>>)

C15_Witness ==
  /\ vPc = "done" /\ vImpl = "old" /\ vIn = "\\begin{a}\\begin{b}\\end{b}\\end{a}"
  /\ WellFormed /\ vOut = Returned(<<>>)

\* C16: validation never throws: for every input it returns a list, and
\* every kind of problem the input has is reported in that one list.
C16_AlwaysReturnsAllIssues ==
  vPc = "done" =>
    /\ vOut.status = "returned"
    /\ MatchCount(vIn, "{") # MatchCount(vIn, "}") => \E k \in Indices(vOut.errors) : IsBraceIssue(vOut.errors[k])
    /\ MatchCount(vIn, "$") % 2 = 1 => \E k \in Indices(vOut.errors) : IsDollarIssue(vOut.errors[k])
    /\ Len(BeginTags) # Len(EndTags) => \E k \in Indices(vOut.errors) : IsEnvironmentIssue(vOut.errors[k])
    /\ UnregisteredTokens # <<>> => \E k \in Indices(vOut.errors) : IsUnknownIssue(vOut.errors[k])

C16_Witness ==
  /\ vPc = "done" /\ vImpl = "old" /\ vIn = "{{$\\begin{align}\\foo"
  /\ vOut.status = "returned" /\ Len(vOut.errors) = 4

(***************************************************************************)
(* getSuggestions and its edit distance                                    *)
(***************************************************************************)

\* Math.min of three numbers
MathMin(x, y, z) == IF x <= y /\ x <= z THEN x ELSE IF y <= z THEN y ELSE z

\* a row filled without the diagonal neighbour, as if a character could not
\* be replaced in one step
RECURSIVE DpCellsNoSubstitution(_, _, _, _, _)
DpCellsNoSubstitution(a, b, dp, i, row) ==
  LET j == Len(row)
  IN IF j > Len(a) THEN row
     ELSE DpCellsNoSubstitution(a, b, dp, i,
            Append(row, IF CharAt(b, i) = CharAt(a, j) THEN dp[i][j]
                        ELSE 1 + MathMin(dp[i][j + 1], row[j], dp[i][j + 1])))

\* a row filled without the left neighbour, as if no character could be
\* put in
RECURSIVE DpCellsNoInsertion(_, _, _, _, _)
DpCellsNoInsertion(a, b, dp, i, row) ==
  LET j == Len(row)
  IN IF j > Len(a) THEN row
     ELSE DpCellsNoInsertion(a, b, dp, i,
            Append(row, IF CharAt(b, i) = CharAt(a, j) THEN dp[i][j]
                        ELSE 1 + MathMin(dp[i][j], dp[i][j + 1], dp[i][j + 1])))

\* the inner loop of lines 100-105 for row i >= 1: dp holds the rows 0..i-1,
\* row the cells dp[i][0..j-1] filled so far.  Rows and cells are counted
\* from 0 in the code and kept in sequences here, so that row i of the code
\* is dp[i + 1] and its cell j is dp[i + 1][j + 1]
RECURSIVE DpCells(_, _, _, _, _)
DpCells(a, b, dp, i, row) ==
  LET j == Len(row)
  IN IF j > Len(a) THEN row
     ELSE DpCells(a, b, dp, i,
            Append(row, IF CharAt(b, i) = CharAt(a, j) THEN dp[i][j]
                        ELSE 1 + MathMin(dp[i][j], row[j], dp[i][j + 1])))

\* the outer loop of lines 99-106, dp holding the rows filled so far
RECURSIVE DpRows(_, _, _)
DpRows(a, b, dp) ==
  LET i == Len(dp)
  IN IF i > Len(b) THEN dp ELSE DpRows(a, b, Append(dp, DpCells(a, b, dp, i, <<i>>)))

dist(a, b) ==
  IF a = b THEN 0
  ELSE DpRows(a, b, << [j \in 1..(Len(a) + 1) |-> j - 1] >>)[Len(b) + 1][Len(a) + 1]

\* [...VALID_MATH_COMMANDS].map(cmd => ({ cmd, d: dist(bad, cmd) }))
Scored(bad) == [i \in Indices(registry) |-> [cmd |-> registry[i], d |-> dist(bad, registry[i])]]

\* the entries of arr whose distance is k, in the order they have in arr
EntriesAt(arr, k) == LET IsAt(o) == o.d = k IN SelectSeq(arr, IsAt)

\* Array.prototype.reverse
reverse(arr) == [i \in Indices(arr) |-> arr[Len(arr) + 1 - i]]

\* an ordering that turns the entries of equal distance around
RECURSIVE sortTiesReversed(_, _)
sortTiesReversed(arr, k) ==
  IF \A i \in Indices(arr) : arr[i].d < k THEN <<>>
  ELSE reverse(EntriesAt(arr, k)) \o sortTiesReversed(arr, k + 1)

\* Array.prototype.sort((a, b) => a.d - b.d) for the entries of distance k or
\* more: ascending by distance, and the sort being stable (Node.js 16 and
\* later) entries that compare equal keep the order they had
RECURSIVE sort(_, _)
sort(arr, k) ==
  IF \A i \in Indices(arr) : arr[i].d < k THEN <<>>
  ELSE EntriesAt(arr, k) \o sort(arr, k + 1)

\* slice(1, end + 1): the first entry is lost
sliceFromSecond(arr, end) == SubSeq(arr, 2, IF end + 1 < Len(arr) THEN end + 1 ELSE Len(arr))

\* Array.prototype.slice(0, end)
slice(arr, end) == SubSeq(arr, 1, IF end < Len(arr) THEN end ELSE Len(arr))

\* suggestions taken from the unsorted array
getSuggestionsUnsorted(bad) ==
  LET top == slice(Scored(bad), 5) IN [k \in Indices(top) |-> top[k].cmd]

\* a registry that learns every name it is asked about
RegistryAfterSuggestionsLearning(bad) == Append(registry, bad)

\* the Set after the call: the spread copies its names into a new array,
\* which is what sort reorders, and the Set itself is only read
RegistryAfterSuggestions(bad) == registry

getSuggestions(bad) ==
  LET scored == Scored(bad)
      top == slice(sort(scored, 0), 5)
  IN [k \in Indices(top) |-> top[k].cmd]

(***************************************************************************)
(* dist applied to two strings                                             *)
(***************************************************************************)

MaxLen == 4

Alphabet == {"a", "b"}

\* the strings over the alphabet of length n or less
RECURSIVE StringsUpTo(_)
StringsUpTo(n) ==
  IF n = 0 THEN {""} ELSE {""} \cup { c \o rest : c \in Alphabet, rest \in StringsUpTo(n - 1) }

DistInit ==
  /\ dPc = "input" /\ dA \in StringsUpTo(MaxLen) /\ dB \in StringsUpTo(MaxLen) /\ dOut = 0
  /\ MatchIdle /\ FormatIdle /\ GenIdle /\ ValidateIdle /\ SuggestIdle /\ RegistryLoaded /\ NoCalls /\ HostIdle

ApplyDist ==
  /\ dPc = "input"
  /\ dPc' = "done" /\ dOut' = dist(dA, dB)
  /\ UNCHANGED <<dA, dB, exceptDistVars>>

DistNext == ApplyDist

SpecDist == DistInit /\ [][DistNext]_vars

\* what one insertion, deletion or substitution makes of s
OneEdit(s) ==
  { SubSeq(s, 1, i - 1) \o SubSeq(s, i + 1, Len(s)) : i \in 1..Len(s) }
  \cup { SubSeq(s, 1, i - 1) \o c \o SubSeq(s, i + 1, Len(s)) : i \in 1..Len(s), c \in Alphabet }
  \cup { SubSeq(s, 1, i) \o c \o SubSeq(s, i + 1, Len(s)) : i \in 0..Len(s), c \in Alphabet }

\* the least number of edits that turn one of the strings in S into b, plus k
RECURSIVE LeastEdits(_, _, _)
LeastEdits(S, b, k) ==
  IF b \in S THEN k ELSE LeastEdits(S \cup UNION { OneEdit(s) : s \in S }, b, k + 1)

EditDistance(a, b) == LeastEdits({a}, b, 0)

\* C20: dist returns the least number of single-character insertions,
\* deletions and substitutions that turn a into b, for all strings a and b,
\* the empty string and strings of different lengths included.
C20_DistIsEditDistance == dPc = "done" => dOut = EditDistance(dA, dB)

C20_Witness == dPc = "done" /\ dA = "abb" /\ dB = "ba" /\ dOut = 2

\* C21: dist is symmetric, dist(a, b) = dist(b, a) for all strings a and b,
\* and dist(s, s) = 0 for every name s of the registry.
C21_DistSymmetricZeroOnSelf ==
  /\ dPc = "done" => dOut = dist(dB, dA)
  /\ dPc = "done" => \A i \in Indices(registry) : dist(registry[i], registry[i]) = 0

C21_Witness == dPc = "done" /\ dA = "ab" /\ dB = "bbaa" /\ dOut = 3 /\ dist(dB, dA) = 3

(***************************************************************************)
(* getSuggestions applied to one name                                      *)
(***************************************************************************)

\* names a caller may have mistyped
Misspellings ==
  {"nonexistentcmd", "alhpa", "fraction", "sigmaa", "lambada", "begn", "itn", "SUM", "equation", "xyz"}

\* names isValidCommand accepts: names of the Set, and names it lets pass
\* without looking them up or after cutting them down
AcceptedNames ==
  {"alpha", "frac", "Rightarrow", "newcommand", "renewcommand", "alpha{x}", " sum ",
   "alpha\\beta", "\\alpha"}

\* every piece of a misspelling, the empty string included, and the accepted
\* names
SuggestInputs ==
  UNION { { SubSeq(w, i, j) : i \in 1..(Len(w) + 1), j \in 0..Len(w) } : w \in Misspellings }
  \cup AcceptedNames

SuggestInit ==
  /\ sPc = "input" /\ sBad \in SuggestInputs /\ sOut = <<>>
  /\ MatchIdle /\ FormatIdle /\ GenIdle /\ ValidateIdle /\ DistIdle /\ RegistryLoaded /\ NoCalls /\ HostIdle

ApplySuggest ==
  /\ sPc = "input"
  /\ sPc' = "done" /\ sOut' = getSuggestions(sBad)
  /\ registry' = RegistryAfterSuggestions(sBad)
  /\ UNCHANGED <<sBad, exceptSuggestVars>>

SuggestNext == ApplySuggest

SpecSuggest == SuggestInit /\ [][SuggestNext]_vars

\* the place of a name in the registry
RegistryIndex(name) == CHOOSE i \in Indices(VALID_MATH_COMMANDS) : VALID_MATH_COMMANDS[i] = name

\* C18: getSuggestions returns min(5, |registry|) names of the registry, all
\* different, listed in non-decreasing order of their distance to the
\* input, and no name it leaves out is strictly closer to the input than a
\* name it returns.
C18_FiveClosestAscending ==
  sPc = "done" =>
    /\ Len(sOut) = (IF Len(VALID_MATH_COMMANDS) < 5 THEN Len(VALID_MATH_COMMANDS) ELSE 5)
    /\ \A k \in Indices(sOut) : sOut[k] \in RegistryNames
    /\ \A k \in Indices(sOut), l \in Indices(sOut) : k < l => sOut[k] # sOut[l]
    /\ \A k \in 1..(Len(sOut) - 1) : dist(sBad, sOut[k]) <= dist(sBad, sOut[k + 1])
    /\ LET last == dist(sBad, sOut[Len(sOut)])
       IN \A i \in Indices(VALID_MATH_COMMANDS) :
            dist(sBad, VALID_MATH_COMMANDS[i]) < last =>
              \E k \in Indices(sOut) : sOut[k] = VALID_MATH_COMMANDS[i]

C18_Witness ==
  /\ sPc = "done" /\ sBad = "nonexistentcmd" /\ Len(sOut) = 5
  /\ dist(sBad, sOut[1]) < dist(sBad, sOut[5])

\* C19: names at the same distance keep the order of the registry: when b is
\* returned, every name a put into the registry before b and as far from the
\* input as b is returned too, ahead of b.
C19_TiesKeepInsertionOrder ==
  sPc = "done" =>
    \A k \in Indices(sOut) :
      \A i \in 1..(RegistryIndex(sOut[k]) - 1) :
        dist(sBad, VALID_MATH_COMMANDS[i]) = dist(sBad, sOut[k]) =>
          \E l \in 1..(k - 1) : sOut[l] = VALID_MATH_COMMANDS[i]

\* two returned names tie, and a name left out ties with the last returned
C19_Witness ==
  /\ sPc = "done" /\ sBad = "xyz" /\ Len(sOut) = 5
  /\ \E k \in 1..4 : dist(sBad, sOut[k]) = dist(sBad, sOut[k + 1])
  /\ \E i \in Indices(VALID_MATH_COMMANDS) :
       /\ dist(sBad, VALID_MATH_COMMANDS[i]) = dist(sBad, sOut[5])
       /\ \A k \in 1..5 : sOut[k] # VALID_MATH_COMMANDS[i]

(***************************************************************************)
(* A session: calls of the four pure functions in any order                *)
(***************************************************************************)

MaxCalls == 3

SessionCodes == {"\\foo", "$\\alpha$$"}
SessionDescriptions == {"the quadratic formula"}
SessionBodies == {"x"}
SessionNames == {"foo"}
SessionCommands == {"foo", "Rightarrow{x}"}

\* nothing of the equation module has been called
ModuleIdle ==
  MatchIdle /\ FormatIdle /\ GenIdle /\ ValidateIdle /\ SuggestIdle /\ DistIdle /\ RegistryLoaded /\ NoCalls

SessionInit == Init

CallValidate(code) ==
  /\ Len(trace) < MaxCalls
  /\ vPc' = "done" /\ vImpl' = "new" /\ vIn' = code /\ vOut' = validateEquation(code)
  /\ trace' = Append(trace, [op |-> "validate", impl |-> "new", code |-> code,
                             result |-> validateEquation(code)])
  /\ UNCHANGED <<matchVars, formatVars, genVars, suggestVars, distVars, registry, hostVars>>

CallValidateOld(latex) ==
  /\ Len(trace) < MaxCalls
  /\ vPc' = "done" /\ vImpl' = "old" /\ vIn' = latex /\ vOut' = validateEquationOld(latex)
  /\ trace' = Append(trace, [op |-> "validate", impl |-> "old", code |-> latex,
                             result |-> validateEquationOld(latex)])
  /\ UNCHANGED <<matchVars, formatVars, genVars, suggestVars, distVars, registry, hostVars>>

CallMatch(desc) ==
  /\ Len(trace) < MaxCalls
  /\ mPc' = "done" /\ mImpl' = "new" /\ mDesc' = desc /\ mOut' = matchKnownEquationPattern(desc)
  /\ trace' = Append(trace, [op |-> "match"])
  /\ UNCHANGED <<formatVars, genVars, validateVars, suggestVars, distVars, registry, hostVars>>

CallFormat(body, fmt, num) ==
  /\ Len(trace) < MaxCalls
  /\ fPc' = "done" /\ fImpl' = "new" /\ fBody' = body /\ fFmt' = fmt /\ fNum' = num
  /\ fOut' = formatEquationResult(SrcOf(body), fmt, num).result.latex
  /\ trace' = Append(trace, [op |-> "format"])
  /\ UNCHANGED <<matchVars, genVars, validateVars, suggestVars, distVars, registry, hostVars>>

CallSuggest(bad) ==
  /\ Len(trace) < MaxCalls
  /\ sPc' = "done" /\ sBad' = bad /\ sOut' = getSuggestions(bad)
  /\ registry' = RegistryAfterSuggestions(bad)
  /\ trace' = Append(trace, [op |-> "suggest"])
  /\ UNCHANGED <<matchVars, formatVars, genVars, validateVars, distVars, hostVars>>

CallIsValidCommand(cmd) ==
  /\ Len(trace) < MaxCalls
  /\ registry' = RegistryAfterIsValidCommand(cmd)
  /\ trace' = Append(trace, [op |-> "isValidCommand", cmd |-> cmd, result |-> isValidCommand(cmd)])
  /\ UNCHANGED <<matchVars, formatVars, genVars, validateVars, suggestVars, distVars, hostVars>>

CallCategorizeCommand(cmd) ==
  /\ Len(trace) < MaxCalls
  /\ trace' = Append(trace, [op |-> "categorizeCommand", cmd |-> cmd, result |-> categorizeCommand(cmd)])
  /\ UNCHANGED <<matchVars, formatVars, genVars, validateVars, suggestVars, distVars, registry, hostVars>>

SessionNext ==
  \/ \E code \in SessionCodes : CallValidate(code)
  \/ \E latex \in SessionCodes : CallValidateOld(latex)
  \/ \E desc \in SessionDescriptions : CallMatch(desc)
  \/ \E body \in SessionBodies, fmt \in {"inline", "display"} : CallFormat(body, fmt, "false")
  \/ \E bad \in SessionNames : CallSuggest(bad)
  \/ \E cmd \in SessionCommands : CallIsValidCommand(cmd)
  \/ \E cmd \in SessionCommands : CallCategorizeCommand(cmd)

SpecSession == SessionInit /\ [][SessionNext]_vars

\* calls i and j of the trace are validations of the same input by the same copy
SameValidation(i, j) ==
  /\ trace[i].op = "validate" /\ trace[j].op = "validate"
  /\ trace[i].impl = trace[j].impl /\ trace[i].code = trace[j].code

\* C17: two validations of the same input return the same issues in the
\* same order, whatever calls of validate, match, format or suggest were
\* made in between.
C17_ValidationHasNoHiddenState ==
  \A i \in Indices(trace), j \in Indices(trace) :
    i < j /\ SameValidation(i, j) => trace[i].result = trace[j].result

\* an input with an unknown command validated before and after a suggestion
C17_Witness ==
  \E i \in Indices(trace), k \in Indices(trace), j \in Indices(trace) :
    /\ i < k /\ k < j /\ SameValidation(i, j) /\ trace[k].op = "suggest"
    /\ trace[i].code = "\\foo" /\ trace[j].result = Returned(<<"Unknown command \\foo">>)

\* what the call made last returned, and what the same call returns on its own
LastCallAsIsolated ==
  trace # <<>> =>
    LET last == trace[Len(trace)]
    IN CASE last.op = "validate" ->
              vOut = (IF vImpl = "new" THEN validateEquation(vIn) ELSE validateEquationOld(vIn))
         [] last.op = "match" -> mOut = matchKnownEquationPattern(mDesc)
         [] last.op = "format" -> fOut = formatEquationResult(SrcOf(fBody), fFmt, fNum).result.latex
         [] last.op = "suggest" -> sOut = getSuggestions(sBad)
         [] last.op = "isValidCommand" -> last.result = isValidCommand(last.cmd)
         [] last.op = "categorizeCommand" -> last.result = categorizeCommand(last.cmd)

\* C22: whatever calls of the matcher, the formatter, the validator,
\* isValidCommand, categorizeCommand and getSuggestions have been made, in
\* whatever order, the registry has the members and the order it had when
\* the module was loaded, the pattern table is the one written in the
\* matcher, and each call returned what it returns on its own.
C22_StaticTablesNeverMutated ==
  /\ registry = VALID_MATH_COMMANDS
  /\ mPc = "done" => (mOut = Null \/ \E i \in Indices(patterns) : mOut = PatternResult(patterns[i]))
  /\ LastCallAsIsolated

C22_Witness ==
  /\ Len(trace) = MaxCalls /\ registry = VALID_MATH_COMMANDS
  /\ \E i \in Indices(trace) : trace[i].op = "suggest"
  /\ \E i \in Indices(trace) : trace[i].op = "isValidCommand" /\ trace[i].cmd = "foo" /\ ~trace[i].result
  /\ trace[Len(trace)].op = "categorizeCommand" /\ trace[Len(trace)].result = "Arrow"

(***************************************************************************)
(* The rate limiter of the server                                          *)
(***************************************************************************)

windowMs == 60 * 1000
maxRequests == 30

\* how far the clock moves in one step: half a window, so that requests lie
\* inside the window, on its edge and outside it
TickMs == windowMs \div 2

MaxTicks == 2
MaxArrivals == 32
MaxOtherArrivals == 1

\* Map.prototype.has
MapHas(map, key) == key \in DOMAIN map

\* Map.prototype.set
MapSet(map, key, value) ==
  [k \in DOMAIN map \cup {key} |-> IF k = key THEN value ELSE map[k]]

\* timestamps.filter(ts => now - ts <= windowMs): the edge of the window kept
RECURSIVE RecentIncludingEdge(_, _)
RecentIncludingEdge(timestamps, at) ==
  IF timestamps = <<>> THEN <<>>
  ELSE (IF at - Head(timestamps) <= windowMs THEN <<Head(timestamps)>> ELSE <<>>)
       \o RecentIncludingEdge(Tail(timestamps), at)

\* timestamps.filter(ts => now - ts < windowMs)
RECURSIVE Recent(_, _)
Recent(timestamps, at) ==
  IF timestamps = <<>> THEN <<>>
  ELSE (IF at - Head(timestamps) < windowMs THEN <<Head(timestamps)>> ELSE <<>>)
       \o Recent(Tail(timestamps), at)

\* the list the middleware stores for the address: lines 455-457
RecentWithThis(ip, at) ==
  LET timestamps == IF MapHas(requestCounts, ip) THEN requestCounts[ip] ELSE <<>>
  IN Append(Recent(timestamps, at), at)

\* the answer of the middleware: 429 or the next middleware
LimiterAnswer(recent) == IF Len(recent) > maxRequests THEN "429" ELSE "next"

LimiterInit == ModuleIdle /\ LimiterIdle /\ ExtensionIdle /\ ServerIdle

\* a request from ip reaches the middleware at the time the clock shows
Request(ip) ==
  /\ Len(arrivals[ip]) < (IF ip = "10.0.0.1" THEN MaxArrivals ELSE MaxOtherArrivals)
  /\ requestCounts' = MapSet(requestCounts, ip, RecentWithThis(ip, now))
  /\ arrivals' = [arrivals EXCEPT ![ip] =
                    Append(@, [at |-> now, answer |-> LimiterAnswer(RecentWithThis(ip, now))])]
  /\ UNCHANGED <<now, exceptLimiterVars>>

\* time passes
Tick ==
  /\ now < MaxTicks * TickMs
  /\ now' = now + TickMs
  /\ UNCHANGED <<requestCounts, arrivals, exceptLimiterVars>>

LimiterNext == (\E ip \in Addresses : Request(ip)) \/ Tick

SpecLimiter == LimiterInit /\ [][LimiterNext]_vars

\* the requests of ip, the k-th included, that arrived less than a window
\* before the k-th
InWindow(ip, k) == { m \in 1..k : arrivals[ip][k].at - arrivals[ip][m].at < windowMs }

\* C23: a request is answered 429 exactly when more than 30 requests of its
\* address, itself and the rejected ones included, arrived within the 60
\* seconds before it, and is passed on otherwise; so no address has more
\* than 30 requests admitted within 60 seconds, and an address that was
\* silent for 60 seconds is admitted again.  Only the requests of the same
\* address enter the count.  (An answer once given stays as it is, so the
\* property is stated of the request each address made last.)
C23_SlidingWindowPerAddress ==
  \A ip \in Addresses : \A k \in {Len(arrivals[ip])} \ {0} :
    /\ arrivals[ip][k].answer = "429" <=> Cardinality(InWindow(ip, k)) > 30
    /\ arrivals[ip][k].answer \in {"429", "next"}
    /\ Cardinality({ m \in InWindow(ip, k) : arrivals[ip][m].answer = "next" }) <= 30
    /\ (k = 1 \/ arrivals[ip][k].at - arrivals[ip][k - 1].at >= 60 * 1000) => arrivals[ip][k].answer = "next"

\* one address has its 31st request rejected while the other is passed on,
\* and is passed on again a window later
C23_Witness ==
  LET a == arrivals["10.0.0.1"]
      b == arrivals["10.0.0.2"]
  IN /\ Len(a) = 32 /\ a[31] = [at |-> 0, answer |-> "429"] /\ a[32] = [at |-> windowMs, answer |-> "next"]
     /\ Len(b) = 1 /\ b[1] = [at |-> 0, answer |-> "next"]

(***************************************************************************)
(* The background script of the browser extension                          *)
(***************************************************************************)

MaxMessages == 2

\* JSON values: a string, a boolean, null, undefined, or an object given as
\* the sequence of its members in insertion order
JStr(s) == [str |-> s]
JBool(b) == [bool |-> b]
JNull == [null |-> TRUE]
JUndefined == [undef |-> TRUE]
JObj(members) == [obj |-> members]
Member(key, value) == [key |-> key, value |-> value]

IsJStr(v) == "str" \in DOMAIN v
IsJObj(v) == "obj" \in DOMAIN v

\* the escapes JSON.stringify writes inside a string
RECURSIVE Escape(_)
Escape(s) ==
  IF s = "" THEN ""
  ELSE (IF CharAt(s, 1) \in {"\"", "\\"} THEN "\\" ELSE "") \o CharAt(s, 1)
       \o Escape(SubSeq(s, 2, Len(s)))

\* JSON.stringify: members whose value is undefined are left out
RECURSIVE stringify(_), StringifyMembers(_, _)
stringify(v) ==
  IF IsJStr(v) THEN "\"" \o Escape(v.str) \o "\""
  ELSE IF "bool" \in DOMAIN v THEN (IF v.bool THEN "true" ELSE "false")
  ELSE IF "null" \in DOMAIN v THEN "null"
  ELSE IF IsJObj(v) THEN "{" \o StringifyMembers(v.obj, "") \o "}"
  ELSE Absent

StringifyMembers(members, acc) ==
  IF members = <<>> THEN acc
  ELSE LET m == Head(members)
       IN IF m.value = JUndefined THEN StringifyMembers(Tail(members), acc)
          ELSE StringifyMembers(Tail(members),
                 acc \o (IF acc = "" THEN "" ELSE ",")
                     \o "\"" \o Escape(m.key) \o "\":" \o stringify(m.value))

\* property access obj.key on a value that is neither null nor undefined
RECURSIVE GetMember(_, _)
GetMember(members, key) ==
  IF members = <<>> THEN JUndefined
  ELSE IF Head(members).key = key THEN Head(members).value
  ELSE GetMember(Tail(members), key)

Get(v, key) == IF IsJObj(v) THEN GetMember(v.obj, key) ELSE JUndefined

\* reading a property of null or undefined throws a TypeError
Nullish(v) == v = JNull \/ v = JUndefined

\* the defaults passed to chrome.storage.sync.get
StorageDefaults ==
  [apiUrl |-> "http://localhost:3000", apiEndpoint |-> "/tools/equation/generate"]

\* chrome.storage.sync.get(defaults): the stored value, else the default
StorageGet(defaults) ==
  [k \in DOMAIN defaults |-> IF MapHas(storage, k) THEN storage[k] ELSE defaults[k]]

\* cfg.apiUrl.replace(/\/$/, '')
replaceTrailingSlash(s) ==
  IF Len(s) > 0 /\ CharAt(s, Len(s)) = "/" THEN SubSeq(s, 1, Len(s) - 1) ELSE s

API_BASE == "http://localhost:4000"
ENDPOINT == "/generate"

\* the request fetchEquation makes for a message
FetchEquationRequest(msg) ==
  LET cfg == StorageGet(StorageDefaults)
  IN [url |-> replaceTrailingSlash(cfg.apiUrl) \o cfg.apiEndpoint,
      method |-> "POST",
      body |-> stringify(JObj(<<Member("description", JStr(msg.text)),
                                Member("format", msg.format),
                                Member("numbered", msg.numbered)>>))]

\* the request the older listener makes for a message
OlderRequest(msg) ==
  [url |-> API_BASE \o ENDPOINT,
   method |-> "POST",
   body |-> stringify(JObj(<<Member("description", JStr(msg.text)),
                             Member("format", JStr("inline")),
                             Member("numbered", JBool(FALSE))>>))]

\* messages of the engine for the errors the script does not word itself
NetworkErrorMessage == "Failed to fetch"
SyntaxErrorMessage == "Unexpected token"
DestructureErrorMessage == "Cannot destructure property 'result'"
LatexErrorMessage == "Cannot read properties of undefined (reading 'latex')"
StorageErrorMessage == "storage unavailable"

NotServed == [none |-> TRUE]
NotJson == [invalid |-> TRUE]

\* what the call on the server may come to
Latexes == {"x=1", "y=2"}
ResponseBodies ==
  {NotJson, JNull, JObj(<<>>), JObj(<<Member("result", JNull)>>),
   JObj(<<Member("result", JObj(<<>>))>>)}
  \cup { JObj(<<Member("result", JObj(<<Member("latex", JStr(l))>>))>>) : l \in Latexes }
FetchOutcomes ==
  {[rejected |-> NetworkErrorMessage]}
  \cup { [ok |-> TRUE, status |-> "200", statusText |-> "OK", body |-> b] : b \in ResponseBodies }
  \cup { [ok |-> FALSE, status |-> "500", statusText |-> "Internal Server Error", body |-> b] :
           b \in {NotJson, JObj(<<Member("error", JStr("failed"))>>),
                  JObj(<<Member("result", JObj(<<Member("latex", JStr("x=1"))>>))>>)} }

\* what the content scripts and other senders send
Messages ==
  {[type |-> "GEN_EQUATION", text |-> "E=mc^2", format |-> JStr("display"), numbered |-> JBool(TRUE)],
   [type |-> "GEN_EQUATION", text |-> "a \"b\" \\c", format |-> JUndefined, numbered |-> JUndefined],
   [type |-> "PING", text |-> "", format |-> JUndefined, numbered |-> JUndefined]}

\* what the options page may have stored
Settings ==
  {EmptyMap,
   [apiUrl |-> "http://localhost:1234", apiEndpoint |-> "/mcp"],
   [apiUrl |-> "http://localhost:1234//", apiEndpoint |-> "/mcp"]}

ExtensionInit ==
  /\ ModuleIdle /\ LimiterIdle /\ ServerIdle
  /\ xImpl \in {"background.js", "part_004"}
  /\ storage \in Settings
  /\ messages = <<>> /\ xPc = <<>> /\ posts = <<>> /\ served = <<>> /\ sent = <<>>

\* the listener is called with a message: lines 38-46 and, older, 12-32
OnMessage(msg) ==
  /\ Len(messages) < MaxMessages
  /\ messages' = Append(messages, msg)
  /\ served' = Append(served, NotServed)
  /\ sent' = Append(sent, <<>>)
  /\ IF msg.type # "GEN_EQUATION"
       THEN xPc' = Append(xPc, "returned") /\ posts' = Append(posts, <<>>)
     ELSE IF xImpl = "background.js"
       THEN xPc' = Append(xPc, "storage") /\ posts' = Append(posts, <<>>)
     ELSE xPc' = Append(xPc, "fetch") /\ posts' = Append(posts, <<OlderRequest(msg)>>)
  /\ UNCHANGED <<xImpl, storage, exceptExtensionVars>>

\* chrome.storage.sync.get settles and fetchEquation goes on to fetch
StorageSettles(i, resolved) ==
  /\ xPc[i] = "storage"
  /\ IF resolved
       THEN /\ posts' = [posts EXCEPT ![i] = Append(@, FetchEquationRequest(messages[i]))]
            /\ xPc' = [xPc EXCEPT ![i] = "fetch"]
            /\ UNCHANGED sent
       ELSE /\ sent' = [sent EXCEPT ![i] = Append(@, [error |-> StorageErrorMessage])]
            /\ xPc' = [xPc EXCEPT ![i] = "done"]
            /\ UNCHANGED posts
  /\ UNCHANGED <<xImpl, storage, messages, served, exceptExtensionVars>>

\* fetch settles: the promise is rejected, or resolved with a response
FetchSettles(i, o) ==
  /\ xPc[i] = "fetch"
  /\ served' = [served EXCEPT ![i] = o]
  /\ IF "rejected" \in DOMAIN o
       THEN /\ sent' = [sent EXCEPT ![i] = Append(@, [error |-> o.rejected])]
            /\ xPc' = [xPc EXCEPT ![i] = "done"]
     ELSE IF xImpl = "background.js" /\ ~o.ok
       THEN /\ sent' = [sent EXCEPT ![i] = Append(@, [error |-> o.status \o " " \o o.statusText])]
            /\ xPc' = [xPc EXCEPT ![i] = "done"]
     ELSE /\ xPc' = [xPc EXCEPT ![i] = "json"]
          /\ UNCHANGED sent
  /\ UNCHANGED <<xImpl, storage, messages, posts, exceptExtensionVars>>

\* what the listener sends once resp.json() has settled with this body
ResponseTo(body) ==
  IF body = NotJson THEN [error |-> SyntaxErrorMessage]
  ELSE IF Nullish(body) THEN [error |-> DestructureErrorMessage]
  ELSE IF Nullish(Get(body, "result")) THEN [error |-> LatexErrorMessage]
  ELSE [latex |-> Get(Get(body, "result"), "latex")]

\* resp.json() settles and the then or the catch callback answers
JsonSettles(i) ==
  /\ xPc[i] = "json"
  /\ sent' = [sent EXCEPT ![i] = Append(@, ResponseTo(served[i].body))]
  /\ xPc' = [xPc EXCEPT ![i] = "done"]
  /\ UNCHANGED <<xImpl, storage, messages, posts, served, exceptExtensionVars>>

ExtensionNext ==
  \/ \E msg \in Messages : OnMessage(msg)
  \/ \E i \in Indices(messages) : \E resolved \in BOOLEAN : StorageSettles(i, resolved)
  \/ \E i \in Indices(messages) : \E o \in FetchOutcomes : FetchSettles(i, o)
  \/ \E i \in Indices(messages) : JsonSettles(i)

SpecExtension == ExtensionInit /\ [][ExtensionNext]_vars

\* fetchEquation has made its request for message i
Fetched(i) == xImpl = "background.js" /\ posts[i] # <<>>

\* the envelope of an ExecuteTool request for the equation tool
Envelope(msg) ==
  JObj(<<Member("type", JStr("ExecuteTool")),
         Member("tool", JStr("generate-latex-equation")),
         Member("parameters", JObj(<<Member("description", JStr(msg.text)),
                                     Member("format", msg.format),
                                     Member("numbered", msg.numbered)>>))>>)

\* C24: for every message fetchEquation makes exactly one POST, to the stored
\* apiUrl without one trailing slash followed by the stored apiEndpoint, and
\* its body is the ExecuteTool envelope of the equation tool around
\* {description: text, format, numbered}.
C24_PostsEnvelope ==
  \A i \in Indices(messages) :
    Fetched(i) =>
      /\ Len(posts[i]) = 1
      /\ posts[i][1].method = "POST"
      /\ posts[i][1].url = replaceTrailingSlash(StorageGet(StorageDefaults).apiUrl)
                             \o StorageGet(StorageDefaults).apiEndpoint
      /\ posts[i][1].body = stringify(Envelope(messages[i]))

\* the server call succeeded: a response with an ok status whose result
\* carries the latex
Succeeded(o) ==
  /\ o # NotServed /\ "rejected" \notin DOMAIN o /\ o.ok
  /\ IsJStr(Get(Get(o.body, "result"), "latex"))

\* C28: every GEN_EQUATION message gets exactly one response, {latex} when
\* the server call succeeded and {error} when the fetch failed, the status
\* was not ok or the response had no usable result; a message of another
\* type gets no response; each response goes to the sender of its message.
C28_AnswersEachMessageOnce ==
  \A i \in Indices(messages) :
    /\ Len(sent[i]) <= 1
    /\ messages[i].type # "GEN_EQUATION" => sent[i] = <<>>
    /\ xPc[i] = "done" =>
         /\ Len(sent[i]) = 1
         /\ IF Succeeded(served[i])
              THEN sent[i][1] = [latex |-> Get(Get(served[i].body, "result"), "latex")]
              ELSE "error" \in DOMAIN sent[i][1]

(***************************************************************************)
(* LaTeXMCPServer: start-up, tool registry and MCP request handlers        *)
(***************************************************************************)

MaxServerCalls == 2

\* what configureMiddleware and configureRoutes mount on the Express app
Middleware == <<"json", "urlencoded", "cors", "rateLimiter", "helmet", "logging", "errorHandler">>
Routes == <<"GET /health", "POST /mcp", "GET /tools">>

\* validateConfig does not throw (!port holds of 0 and of NaN alike)
validateConfig == config.apiKey # "" /\ config.port # 0

\* MCPServer.setRequestHandler: the handler set last for a schema is the one
\* that is kept
setRequestHandler(handlers, schema, handler) == MapSet(handlers, schema, handler)

\* the handler MCPServer.handleRequest runs for a request of the schema
HandlerFor(schema) == IF MapHas(requestHandlers, schema) THEN requestHandlers[schema] ELSE Absent

\* registerMCPHandlers
registerMCPHandlers(handlers) ==
  setRequestHandler(setRequestHandler(handlers, "ListTools", "server"), "ExecuteTool", "server")

\* the switch of the extension's ExecuteTool handler
SpeculativeHandlers ==
  "create-worldbuilding-document" :> "handleWorldbuildingDocument"
  @@ "create-philosophical-argument" :> "handlePhilosophicalArgument"
  @@ "create-character-profile" :> "handleCharacterProfile"
  @@ "create-concept-map" :> "handleConceptMap"
  @@ "format-dialogue" :> "handleDialogueFormatting"
  @@ "create-timeline" :> "handleTimelineCreation"
  @@ "format-philosophical-citation" :> "handlePhilosophicalCitation"

SpeculativeTools == DOMAIN SpeculativeHandlers

\* the ListTools handler and GET /tools: Array.from(this.tools.values())
ListedTools == { tools[n].name : n \in DOMAIN tools }

\* the answer to a request: a result of a handler, or an error; listed says
\* whether the tool was among the listed ones when the request came
Result(tool, handler) ==
  [tool |-> tool, answer |-> "result", by |-> handler, message |-> "",
   listed |-> tool \in ListedTools]
Failure(tool, message) ==
  [tool |-> tool, answer |-> "error", by |-> "", message |-> message,
   listed |-> tool \in ListedTools]

\* the ExecuteTool handler of the extension: lines 1164-1185
ExtensionExecute(tool, threw) ==
  IF tool \notin SpeculativeTools THEN Failure(tool, "Unsupported tool: " \o tool)
  ELSE IF threw THEN Failure(tool, "failed")
  ELSE Result(tool, SpeculativeHandlers[tool])

\* the ExecuteTool handler of the server: lines 528-545
ServerExecute(tool, threw) ==
  IF ~MapHas(toolHandlers, tool) THEN Failure(tool, "Tool not found: " \o tool)
  ELSE IF threw THEN Failure(tool, "Error executing tool " \o tool \o ": failed")
  ELSE Result(tool, toolHandlers[tool])

\* the tool modules a tools directory may hold, and those registerTool is
\* called with
EquationToolModule ==
  [toolDefinition |-> [name |-> "generate-latex-equation", description |-> "equations"],
   handler |-> "handler"]
ToolModules ==
  {EquationToolModule,
   [toolDefinition |-> [name |-> "generate-latex-equation", description |-> "other"],
    handler |-> "other"],
   [toolDefinition |-> [name |-> "create-timeline", description |-> "timelines"],
    handler |-> "timeline"]}

\* the handlers map after registerTool, which throws on a name already there
ToolHandlersAfterRegisterToolOverwriting(toolDefinition, handler) ==
  MapSet(toolHandlers, toolDefinition.name, handler)

ToolHandlersAfterRegisterTool(toolDefinition, handler) ==
  IF MapHas(tools, toolDefinition.name) THEN toolHandlers
  ELSE MapSet(toolHandlers, toolDefinition.name, handler)

ToolsAfterRegisterTool(toolDefinition, handler) ==
  IF MapHas(tools, toolDefinition.name) THEN tools
  ELSE MapSet(tools, toolDefinition.name, toolDefinition)

ServerInit ==
  /\ ModuleIdle /\ LimiterIdle /\ ExtensionIdle
  /\ config \in {[apiKey |-> "key", port |-> 3000], [apiKey |-> "", port |-> 3000],
                 [apiKey |-> "key", port |-> 0]}
  /\ isInitialized = FALSE /\ app = <<>> /\ tools = EmptyMap /\ toolHandlers = EmptyMap
  /\ requestHandlers = EmptyMap /\ mcpTools = {} /\ listening = 0 /\ calls = <<>>
  /\ executed = NoRequest /\ lastRegister = NoRegister

\* main(), line 14: the extension is configured on the raw MCP server, before
\* the server is started
ConfigureSpeculativePhilosophyExtension ==
  /\ calls = <<>> /\ mcpTools # SpeculativeTools
  /\ mcpTools' = mcpTools \cup SpeculativeTools
  /\ requestHandlers' = setRequestHandler(requestHandlers, "ExecuteTool", "extension")
  /\ UNCHANGED <<config, isInitialized, app, tools, toolHandlers, listening, calls,
                 executed, lastRegister, exceptServerVars>>

\* what a call of registerTool was given, what it found and whether it threw
Registration(module) ==
  [name |-> module.toolDefinition.name,
   toolDefinition |-> module.toolDefinition,
   handler |-> module.handler,
   threw |-> MapHas(tools, module.toolDefinition.name),
   toolsBefore |-> tools, toolHandlersBefore |-> toolHandlers]

\* registerTool(toolDefinition, handler): lines 653-664
RegisterTool(module) ==
  /\ lastRegister' = Registration(module)
  /\ tools' = ToolsAfterRegisterTool(module.toolDefinition, module.handler)
  /\ toolHandlers' = ToolHandlersAfterRegisterTool(module.toolDefinition, module.handler)
  /\ UNCHANGED <<config, isInitialized, app, requestHandlers, mcpTools, listening, calls,
                 executed, exceptServerVars>>

\* initialize() or start() is called and runs up to its first await:
\* lines 387-408 and 694-704
ServerCall(op) ==
  /\ Len(calls) < MaxServerCalls
  /\ IF isInitialized
       THEN /\ calls' = Append(calls, [op |-> op, pc |-> IF op = "start" THEN "listening" ELSE "returned"])
            /\ listening' = IF op = "start" THEN listening + 1 ELSE listening
            /\ UNCHANGED <<app, requestHandlers>>
     ELSE IF ~validateConfig
       THEN /\ calls' = Append(calls, [op |-> op, pc |-> "failed"])
            /\ UNCHANGED <<app, requestHandlers, listening>>
     ELSE /\ calls' = Append(calls, [op |-> op, pc |-> "loadTools"])
          /\ app' = app \o Middleware \o Routes
          /\ requestHandlers' = registerMCPHandlers(requestHandlers)
          /\ UNCHANGED listening
  /\ UNCHANGED <<config, isInitialized, tools, toolHandlers, mcpTools, executed,
                 lastRegister, exceptServerVars>>

\* loadTools settles: it has registered the tool modules it found (a tool
\* that fails to register is logged and skipped), or it has thrown
LoadToolsSettles(c, found, threw) ==
  /\ calls[c].pc = "loadTools"
  /\ IF threw
       THEN calls' = [calls EXCEPT ![c].pc = "failed"] /\ UNCHANGED <<tools, toolHandlers, lastRegister>>
       ELSE /\ calls' = [calls EXCEPT ![c].pc = "loadExtensions"]
            /\ IF found = <<>> THEN UNCHANGED <<tools, toolHandlers, lastRegister>>
               ELSE /\ lastRegister' = Registration(found[1])
                    /\ tools' = ToolsAfterRegisterTool(found[1].toolDefinition, found[1].handler)
                    /\ toolHandlers' = ToolHandlersAfterRegisterTool(found[1].toolDefinition, found[1].handler)
  /\ UNCHANGED <<config, isInitialized, app, requestHandlers, mcpTools, listening,
                 executed, exceptServerVars>>

\* loadExtensions settles: initialize() is through, or it has thrown
LoadExtensionsSettles(c, threw) ==
  /\ calls[c].pc = "loadExtensions"
  /\ IF threw
       THEN calls' = [calls EXCEPT ![c].pc = "failed"] /\ UNCHANGED isInitialized
       ELSE /\ isInitialized' = TRUE
            /\ calls' = [calls EXCEPT ![c].pc = IF calls[c].op = "start" THEN "listen" ELSE "returned"]
  /\ UNCHANGED <<config, app, tools, toolHandlers, requestHandlers, mcpTools, listening,
                 executed, lastRegister, exceptServerVars>>

\* start() goes on after its await: this.app.listen
Listen(c) ==
  /\ calls[c].pc = "listen"
  /\ listening' = listening + 1
  /\ calls' = [calls EXCEPT ![c].pc = "listening"]
  /\ UNCHANGED <<config, isInitialized, app, tools, toolHandlers, requestHandlers, mcpTools,
                 executed, lastRegister, exceptServerVars>>

\* POST /mcp with an ExecuteTool request: the handler set for the schema runs
ExecuteTool(tool, threw) ==
  /\ listening > 0
  /\ MapHas(requestHandlers, "ExecuteTool")
  /\ executed' = IF HandlerFor("ExecuteTool") = "server"
                   THEN ServerExecute(tool, threw)
                   ELSE ExtensionExecute(tool, threw)
  /\ UNCHANGED <<config, isInitialized, app, tools, toolHandlers, requestHandlers, mcpTools,
                 listening, calls, lastRegister, exceptServerVars>>

\* the tools requests name
RequestedTools == SpeculativeTools \cup {"generate-latex-equation", "unknown-tool"}

ServerNext ==
  \/ ConfigureSpeculativePhilosophyExtension
  \/ \E module \in ToolModules : RegisterTool(module)
  \/ \E op \in {"initialize", "start"} : ServerCall(op)
  \/ \E c \in Indices(calls) : \E found \in {<<>>, <<EquationToolModule>>} :
       \E threw \in BOOLEAN : LoadToolsSettles(c, found, threw)
  \/ \E c \in Indices(calls) : \E threw \in BOOLEAN : LoadExtensionsSettles(c, threw)
  \/ \E c \in Indices(calls) : Listen(c)
  \/ \E tool \in RequestedTools : \E threw \in BOOLEAN : ExecuteTool(tool, threw)

SpecServer == ServerInit /\ [][ServerNext]_vars

\* how often a mounted layer occurs on the Express app
Occurrences(layer) == Cardinality({ k \in Indices(app) : app[k] = layer })

\* C25: after main() has configured the extension on the raw MCP server and
\* started the server, an ExecuteTool request naming one of the seven tools
\* of the extension is dispatched to the handler of that tool and does not
\* fail with 'Tool not found'.
C25_SpeculativeToolsStillDispatched ==
  (mcpTools = SpeculativeTools /\ listening > 0 /\ executed.tool \in SpeculativeTools) =>
    /\ executed.message # "Tool not found: " \o executed.tool
    /\ executed.answer = "result" => executed.by = SpeculativeHandlers[executed.tool]

\* C26: the tools map and the handlers map have the same names; a call of
\* registerTool with a registered name throws and leaves both maps as they
\* were, and any other call adds the name to both; so every listed tool has
\* a handler and ExecuteTool on a listed tool never fails with 'Tool not
\* found'.
C26_ToolsAndHandlersAgree ==
  /\ DOMAIN tools = DOMAIN toolHandlers
  /\ \A n \in DOMAIN tools : tools[n].name = n
  /\ lastRegister # NoRegister =>
       IF lastRegister.threw
         THEN /\ lastRegister.name \in DOMAIN lastRegister.toolsBefore
              /\ tools = lastRegister.toolsBefore
              /\ toolHandlers = lastRegister.toolHandlersBefore
         ELSE /\ lastRegister.name \notin DOMAIN lastRegister.toolsBefore
              /\ tools = MapSet(lastRegister.toolsBefore, lastRegister.name, lastRegister.toolDefinition)
              /\ toolHandlers = MapSet(lastRegister.toolHandlersBefore, lastRegister.name, lastRegister.handler)
  /\ ListedTools \subseteq DOMAIN toolHandlers
  /\ (executed # NoRequest /\ executed.listed) =>
       executed.message # "Tool not found: " \o executed.tool

\* a second definition of a registered tool was refused, and a request for
\* the tool was answered by the handler registered first
C26_Witness ==
  /\ lastRegister # NoRegister /\ lastRegister.threw
  /\ lastRegister.handler = "other"
  /\ executed # NoRequest /\ executed.listed /\ executed.answer = "result"
  /\ executed.by = "handler"

\* C27: the server listens only once it is initialized, isInitialized is set
\* only by a call that went through tool and extension loading, and the
\* middleware, the routes and the MCP handlers are set up at most once,
\* however initialize() and start() are called.
C27_SetupRunsOnce ==
  /\ listening > 0 => isInitialized
  /\ isInitialized => \E c \in Indices(calls) : calls[c].pc \in {"returned", "listen", "listening"}
  /\ \A k \in Indices(Middleware) : Occurrences(Middleware[k]) <= 1
  /\ \A k \in Indices(Routes) : Occurrences(Routes[k]) <= 1

(***************************************************************************)
(* validateEquation applied to what formatEquationResult returns           *)
(***************************************************************************)

MaxBodyTokens == 2

\* bodies built from pieces of LaTeX, whole and cut off
BodyTokens == {"{", "}", "$", "\\alpha", "\\begin{", "\\end{", "\\begin{align}", "\\end{align}"}

RECURSIVE BodyStrings(_)
BodyStrings(n) ==
  IF n = 0 THEN {""} ELSE {""} \cup { t \o rest : t \in BodyTokens, rest \in BodyStrings(n - 1) }

FormatValidateBodies == Bodies \cup ExampleStrings \cup BodyStrings(MaxBodyTokens)

FormatValidateInit ==
  /\ fPc = "input" /\ fImpl = "none" /\ fOut = ""
  /\ fBody \in FormatValidateBodies /\ fFmt \in Formats /\ fNum \in {"true", "false"}
  /\ MatchIdle /\ GenIdle /\ ValidateIdle /\ SuggestIdle /\ DistIdle /\ RegistryLoaded /\ NoCalls /\ HostIdle

\* validateEquation of equation-generator.ts on the formatted latex
ValidateFormatted ==
  /\ fPc = "done" /\ vPc = "idle"
  /\ vPc' = "done" /\ vImpl' = "new" /\ vIn' = fOut /\ vOut' = validateEquation(fOut)
  /\ UNCHANGED exceptValidateVars

\* validateEquation of math-symbols-library.ts on the formatted latex
ValidateFormattedOld ==
  /\ fPc = "done" /\ vPc = "idle"
  /\ vPc' = "done" /\ vImpl' = "old" /\ vIn' = fOut /\ vOut' = validateEquationOld(fOut)
  /\ UNCHANGED exceptValidateVars

FormatValidateNext == ApplyFormat \/ ApplyFormatOld \/ ValidateFormatted \/ ValidateFormattedOld

SpecFormatValidate == FormatValidateInit /\ [][FormatValidateNext]_vars

\* what the validator that checked the formatted latex says of the body
BodyValidation == IF vImpl = "new" THEN validateEquation(fBody) ELSE validateEquationOld(fBody)

\* C29: when validateEquation returns no issue for a body, it returns no
\* issue for the latex formatEquationResult makes of the body, for each of
\* the five formats, numbered or not.
C29_FormattingPreservesValidity ==
  (vPc = "done" /\ BodyValidation = Returned(<<>>)) => vOut = Returned(<<>>)

\* the tag opened at position i of the body is closed by a brace of the body
ClosedIn(body, i, opening) ==
  (i + Len(opening) - 1 <= Len(body) /\ SubSeq(body, i, i + Len(opening) - 1) = opening) =>
    \E j \in (i + Len(opening))..Len(body) : CharAt(body, j) = "}"

\* no \begin{ and no \end{ of the body is left without its closing brace
TagsClosed(body) ==
  \A i \in Indices(body) : ClosedIn(body, i, "\\begin{") /\ ClosedIn(body, i, "\\end{")

\* C29 as amended: when validateEquation returns no issue for a body in
\* which every \begin{ and every \end{ is followed by a closing brace, it
\* returns no issue for the latex formatEquationResult makes of the body.
C29_ClosedTagsPreserveValidity ==
  (vPc = "done" /\ TagsClosed(fBody) /\ BodyValidation = Returned(<<>>)) => vOut = Returned(<<>>)

\* a body with an environment of its own, put into an unnumbered gather, is
\* found valid by the older validator
C29_Witness ==
  /\ vPc = "done" /\ vImpl = "old" /\ fImpl = "new"
  /\ fBody = "\\begin{align}\\end{align}" /\ fFmt = "gather" /\ fNum = "false"
  /\ vIn = "\\begin{gather*}\n  \\begin{align}\\end{align}\n\\end{gather*}"
  /\ BodyValidation = Returned(<<>>)
  /\ vOut = Returned(<<>>)

(***************************************************************************)
(* A name and its own suggestions                                          *)
(***************************************************************************)

====
